---- MODULE Spec2Model ----
(***************************************************************************)
(* nw-loader: a read-through cache (NWLoader.load / prime / clear) with    *)
(* stale-while-revalidate refresh on top of a Redis-backed lock            *)
(* (Lock.race / Lock.all).                                                 *)
(*                                                                         *)
(* Every call is one asynchronous JavaScript invocation.  One action is   *)
(* one store operation (or the user task) together with the synchronous   *)
(* code that runs up to the next await; calls of different processes      *)
(* interleave between awaits.  Time passes in ticks of one second, at which  *)
(* the store counts down the expiry of its keys.                           *)
(***************************************************************************)
EXTENDS Integers, Sequences, FiniteSets, TLC

\* ------------------------------------------------------------- bounds
\* concurrent load calls of specification Spec
NLoad == 2
\* concurrent load calls of specification SpecHeavy
NHeavy == 3
\* concurrent Lock.race / Lock.all calls of specification SpecLock
NLock == 2
\* store operations that may fail with a transport error in one behaviour
MaxFaults == 1
\* seconds of loader invocations the log remembers
LogLen == 1
\* largest timeout (in seconds) passed to Lock.race / Lock.all directly
MaxTimeout == 1
\* concurrent Lock.all calls of specification SpecOrder
NOrder == 3
\* load calls of specification SpecSettle
NSettle == 1

\* ------------------------------------------------ program constants
\* options.ttl, the user TTL T in seconds (the value the tests construct with)
ttl == 2
\* Lock options.defaultTimeout: 10000 ms, in seconds
defaultTimeout == 10

keyPrefix == "nwloader"
lockPrefix == "nwlock"
\* name of the loader under test
name == "user"
\* name of a second loader on the same store
otherName == "post"

Max(a, b) == IF a > b THEN a ELSE b

Calls == 1..Max(Max(NLoad, NOrder), Max(NHeavy, NLock))

\* ------------------------------------------------------ JS values
Undefined == [t |-> "undefined"]

Null == [t |-> "null"]

Fn == [t |-> "function"]

Bool(b) == [t |-> "boolean", b |-> b]

Num(n) == [t |-> "number", n |-> n]

\* the number NaN
NaN == [t |-> "nan"]

\* the string s
Str(s) == [t |-> "string", s |-> s]

\* the object {id: n}
Obj(n) == [t |-> "object", id |-> n]

\* the array of the items
Arr(items) == [t |-> "array", items |-> items]

\* JavaScript truthiness (a token is 40 hex digits, never the empty string)
Truthy(x) ==
  CASE x.t = "boolean" -> x.b
    [] x.t = "number" -> x.n # 0
    [] x.t \in {"undefined", "null"} -> FALSE
    [] x.t = "string" -> IF "s" \in DOMAIN x THEN x.s # ""
                         ELSE IF "chars" \in DOMAIN x THEN Len(x.chars) > 0
                         ELSE TRUE
    [] OTHER -> TRUE

\* a generator that hands every attempt the same token
TokenFixed(c, n) == [t |-> "string", by |-> 0, n |-> 0]

\* Lock._generateToken: 20 random bytes, so the draws of different acquisition
\* attempts differ: the n-th attempt of call c draws Token(c, n)
Token(c, n) == [t |-> "string", by |-> c, n |-> n]

\* --------------------------------------------------- derived keys
\* `${key}` for a scalar key: a number is written in decimal
Text(x) == IF x.t = "number" THEN ToString(x.n) ELSE x.s

RECURSIVE Json(_), JsonItems(_)

\* JSON.stringify(x), the text
Json(x) ==
  CASE x.t = "string" -> "\"" \o x.s \o "\""
    [] x.t = "number" -> ToString(x.n)
    [] x.t = "object" -> "{\"id\":" \o ToString(x.id) \o "}"
    [] x.t = "array" -> "[" \o JsonItems(x.items) \o "]"
    [] OTHER -> "null"

\* the items of an array, separated by commas
JsonItems(items) ==
  IF Len(items) = 0 THEN ""
  ELSE IF Len(items) = 1 THEN Json(items[1])
  ELSE Json(items[1]) \o "," \o JsonItems(Tail(items))

\* the MD5 digest of a text, taken as an injective function of the text
md5(text) == "md5(" \o text \o ")"

\* a getBaseKey that hashes whatever it is given
getBaseKeyHashed(args) == Str(md5(Json(Arr(args))))

\* NWLoader.getBaseKey(args): the only argument or the whole argument list;
\* a string or a number stays as it is, everything else is hashed
getBaseKey(args) ==
  LET key == IF Len(args) = 1 THEN args[1] ELSE Arr(args)
  IN IF key.t \in {"string", "number"} THEN key ELSE Str(md5(Json(key)))

\* the argument lists the load calls of specification SpecArgs are made with
ArgForms ==
  {<<Str("u1")>>, <<Str("")>>, <<Num(0)>>, <<Num(1)>>, <<Str("1")>>, <<Obj(1)>>,
   <<Str("u1"), Str("en")>>, <<Arr(<<Str("u1"), Str("en")>>)>>}

\* the base keys (already derived) the calls use
BaseKeys == {"u1", "u2"} \cup {Text(getBaseKey(a)) : a \in ArgForms}

VARIABLES
  redis,        \* the store: key -> Absent or [val, exp]
  call,         \* per call: its local state and position
  loaderCalls,  \* number of invocations of the user loader
  loaderLog,    \* loader invocations per second: this second first, then the
                \* second before, ... (the last LogLen seconds)
  faults,       \* store operations that failed so far
  lockExpired   \* history: some lock key expired by timeout

vars == <<redis, call, loaderCalls, loaderLog, faults, lockExpired>>

\* ------------------------------------------------------------- keys
\* NWLoader.getKey for a scalar key
getKey(key) == keyPrefix \o ":" \o name \o ":" \o key

\* NWLoader.getKey of the loader named n
getKeyOf(n, key) == IF n = name THEN getKey(key) ELSE keyPrefix \o ":" \o n \o ":" \o key

\* a Lock.getKey that leaves the key out
lockGetKeyNameless(key) == lockPrefix

\* Lock.getKey for a scalar key
lockGetKey(key) == lockPrefix \o ":" \o key

raceKey(lockName) == lockGetKey(lockName) \o ":race"

allKey(lockName) == lockGetKey(lockName) \o ":all"

DataKeys == {getKey(k) : k \in BaseKeys} \cup {getKeyOf(otherName, "u1")}

LockKeys == {raceKey(k) : k \in BaseKeys} \cup {allKey(k) : k \in BaseKeys}

Keys == DataKeys \cup LockKeys

\* ------------------------------------------------------------ store
Absent == [absent |-> TRUE]

\* EXPIRE-less keys report TTL -1, absent keys -2
NoExpiry == -1

\* redis.get: the stored blob, or null
RedisGet(k) == IF redis[k] = Absent THEN Null ELSE redis[k].val

\* redis.ttl: seconds remaining, -1 without expiry, -2 when absent
RedisTtl(k) == IF redis[k] = Absent THEN -2 ELSE redis[k].exp

\* redis.set(k, v, 'EX'|'PX', exp): unconditional overwrite
RedisSet(k, v, exp) == [redis EXCEPT ![k] = [val |-> v, exp |-> exp]]

\* a set without the NX option always answers OK
RedisSetOk(k) == TRUE

\* redis.set(k, v, 'PX', exp, 'NX') answers OK iff the key is absent
RedisSetNXOk(k) == redis[k] = Absent

\* a release that deletes the key without looking at its value
releaseAny(k, token) ==
  IF redis[k] # Absent
    THEN [store |-> [redis EXCEPT ![k] = Absent], result |-> 1]
    ELSE [store |-> redis, result |-> 0]

\* the release script: DEL only when the key holds the caller's token
releaseScript(k, token) ==
  IF redis[k] # Absent /\ redis[k].val = token
    THEN [store |-> [redis EXCEPT ![k] = Absent], result |-> 1]
    ELSE [store |-> redis, result |-> 0]

\* one second passes: every expiry shrinks, keys at their last second vanish
Expire(store) ==
  [k \in Keys |->
     IF store[k] = Absent \/ store[k].exp = NoExpiry THEN store[k]
     ELSE IF store[k].exp <= 1 THEN Absent
     ELSE [store[k] EXCEPT !.exp = @ - 1]]

\* ------------------------------------------------------- JSON blobs
\* a serialisation that writes every value as it is
JsonValueKept(value) == value

\* what JSON.stringify writes for a value: NaN is written as null
JsonValue(value) == IF value = NaN THEN Null ELSE value

\* JSON.stringify({createTime, value}): a value of undefined drops the field
JsonStringify(createTime, value) ==
  IF value = Undefined
    THEN [t |-> "json", createTime |-> createTime]
    ELSE [t |-> "json", createTime |-> createTime, value |-> JsonValue(value)]

\* a blob that is not JSON
Garbage == [t |-> "garbage"]

\* the JSON text of a value that is not an entry
JsonText(v) == [t |-> "text", v |-> v]

\* JSON.parse of a stored blob (rawValue !== null): an entry, another JSON
\* value, or a parse error, which leaves v = null
JsonParse(raw) ==
  IF raw = Null THEN Null
  ELSE IF raw.t = "json"
    THEN IF "value" \in DOMAIN raw
           THEN [t |-> "object", createTime |-> raw.createTime, value |-> raw.value]
           ELSE [t |-> "object", createTime |-> raw.createTime]
  ELSE IF raw.t = "text" THEN raw.v
  ELSE Null

\* v && v.createTime
WellFormed(v) == Truthy(v) /\ "createTime" \in DOMAIN v /\ v.createTime # 0

\* v.value of a parsed entry
EntryValue(v) == IF "value" \in DOMAIN v THEN v.value ELSE Undefined

\* Date.now(): a positive time; the code only tests it for truth
Now == 1

\* ----------------------------------------------------------- errors
NoErr == [t |-> "none"]

\* a transport error of a store operation
StoreErr(op) == [t |-> "error", kind |-> "store", op |-> op, annotated |-> FALSE]

\* what the user loader throws
LoaderErr == [t |-> "error", kind |-> "loader", op |-> "loader", annotated |-> FALSE]

\* an Error with a code property, thrown by the user loader
LoaderErrCode ==
  [t |-> "error", kind |-> "loader", op |-> "loader", annotated |-> FALSE, code |-> Str("E1")]

\* a string thrown by the user loader
LoaderText == Str("boom")

\* what a task passed to Lock.race / Lock.all throws
TaskErr(c) == [t |-> "error", kind |-> "task", op |-> "task", annotated |-> FALSE, by |-> c]

NeedLockName == [t |-> "error", kind |-> "needLockName", op |-> "race", annotated |-> FALSE]

\* err.message = `NWLoader ${name}:${key} Error: ${err.message}`
Annotate(e) == [e EXCEPT !.annotated = TRUE]

\* err && err.code
HasCode(e) == Truthy(e) /\ "code" \in DOMAIN e /\ Truthy(e.code)

\* if (typeof err !== 'object') err = new Error(err): a new Error whose message
\* is the text of what was thrown
AsError(e) ==
  IF e.t = "error" THEN e
  ELSE [t |-> "error", kind |-> "loader", op |-> "loader", annotated |-> FALSE, message |-> e]

\* ------------------------------------------------------- call state
\* the state of one call before its first step
NewCall(c, kind, origKey, args) ==
  [id |-> c,
   kind |-> kind,          \* "load", "race" or "all" ("none": a call never made)
   loader |-> name,        \* load: the name of the loader the call is made on
   pc |-> CASE kind = "load" -> "get" [] kind = "none" -> "end" [] OTHER -> "enter",
   origKey |-> origKey,    \* load: getBaseKey(args); lock calls: lockName
   did |-> FALSE,          \* load: the did flag of the running load frame
   v |-> Null,             \* load: the parsed entry
   raw |-> Null,           \* load: rawValue, what the read of the running frame returned
   ttlSeen |-> -3,         \* load: what the TTL probe answered (-3: not probed, -4: failed)
   depth |-> 0,            \* load: recursive re-reads so far
   args |-> args,          \* lock calls: the arguments after lockName
   lockName |-> Str(origKey),       \* lock calls: lockName as it was passed
   loadArgs |-> <<Str(origKey)>>,  \* load: the args of the running load frame
   origArgs |-> <<Str(origKey)>>,  \* load: the args the caller passed
   given |-> <<>>,         \* load: the arguments of this call's last loader invocation
   ignore |-> FALSE,       \* race: ignore after normalisation
   timeout |-> 0,          \* lock expiry of this call
   token |-> Null,         \* the token of this acquisition attempt
   acquired |-> FALSE,     \* SET NX answered OK
   delayed |-> FALSE,
   err |-> NoErr,          \* the task's error, kept until after the release
   thrown |-> NoErr,       \* load: what the user loader threw
   newData |-> Undefined,  \* the task's result
   relRes |-> -1,          \* what the release script answered (-1: not run)
   outcome |-> "pending",  \* the call's promise
   result |-> Undefined,
   dones |-> 0,            \* load: calls of done()
   rejects |-> 0,          \* load: calls of reject()
   bgErr |-> NoErr,        \* load: the error logged as a background error
   runs |-> 0,             \* times the task (the loader) was invoked by this call
   cold |-> FALSE,         \* load: the first read found no entry
   startLoads |-> -1,      \* load: loader invocations so far at the first read
   late |-> FALSE,         \* the SET NX came after a release of the same lock
   prior |-> 0,            \* lock calls: calls that had ended when this one was made
   arrived |-> 0,          \* all: this call was the n-th to make its first attempt
   turn |-> 0,             \* all: this call was the n-th to acquire
   busy |-> FALSE,         \* clear: a refresh task was between loader and prime at the del
   ops |-> {}]             \* operations issued by the running frame

\* load(...args) before its first step
NewLoad(c, args) ==
  [NewCall(c, "load", Text(getBaseKey(args)), <<>>) EXCEPT !.loadArgs = args,
                                                           !.origArgs = args]

\* the key Lock.getKey puts into the lock key: a string or a number as its
\* text, everything else hashed
LockText(key) == IF key.t \in {"string", "number"} THEN Text(key) ELSE md5(Json(key))

\* lock.race(lockName, ...args) or lock.all(lockName, ...args) before its first step
NewLock(c, kind, lockName, args) ==
  [NewCall(c, kind, LockText(lockName), args) EXCEPT !.lockName = lockName]

\* the promise settles once; later done()/reject() calls change nothing
Settle(r, how, val) ==
  IF r.outcome = "pending" THEN [r EXCEPT !.outcome = how, !.result = val] ELSE r

\* done(value)
Done(r, val) == [Settle(r, "resolved", val) EXCEPT !.dones = @ + 1]

\* reject(err)
Reject(r, e) == [Settle(r, "rejected", e) EXCEPT !.rejects = @ + 1]

Issue(r, op) == [r EXCEPT !.ops = @ \cup {op}]

\* ------------------------------------------------------ NWLoader.load
\* a catch that only logs, whatever did says
LoadCatchSilent(r, e) == [r EXCEPT !.bgErr = Annotate(e), !.pc = "end"]

\* a catch that rejects, whatever did says
LoadCatchAlways(r, e) == [Reject(r, e) EXCEPT !.pc = "end"]

\* the catch of load: reject only while the caller has no data yet
LoadCatch(r, e) ==
  IF ~r.did
    THEN [Reject(r, e) EXCEPT !.pc = "end"]
    ELSE [r EXCEPT !.bgErr = Annotate(e), !.pc = "end"]

\* a race that reads ignore in fourth place only: the shift of the 3-argument
\* form is lost
RaceIgnoreLost(a2, a3, a4) == IF a4 = Undefined THEN FALSE ELSE Truthy(a4)

\* a race whose ignore has no default
RaceIgnoreNoDefault(a2, a3, a4) == Truthy(IF a2.t = "function" THEN a3 ELSE a4)

\* Lock.race, from its call to the SET NX of getRaceLock: the 3-argument form
\* race(lockName, task, ignore) shifts its arguments; ignore defaults to true
\* only when it was given in neither position
RaceIgnore(a2, a3, a4) ==
  LET ignore == IF a2.t = "function" THEN a3 ELSE a4
  IN IF a4 = Undefined /\ ignore = Undefined THEN TRUE ELSE Truthy(ignore)

RaceTimeout(a2) == IF a2.t = "function" THEN defaultTimeout ELSE a2.n

\* the task of a well-formed race call
RaceTaskOk(a2, a3) == IF a2.t = "function" THEN TRUE ELSE a3.t = "function"

\* this.lock.race(origKey, task, did)
LoadRace(r) ==
  IF ~Truthy(getBaseKey(r.loadArgs))
    THEN LoadCatch(r, NeedLockName)
    ELSE [r EXCEPT !.pc = "setnx",
                   !.ignore = RaceIgnore(Fn, Bool(r.did), Undefined),
                   !.timeout = RaceTimeout(Fn),
                   !.token = Token(r.id, r.depth),
                   !.acquired = FALSE,
                   !.delayed = FALSE,
                   !.err = NoErr]

\* load lines 131-152: the read, the immediate answer, the choice of the next step
LoadRead(r, raw) ==
  LET v == JsonParse(raw)
      r1 == [Issue(r, "get") EXCEPT
               !.v = v,
               !.raw = raw,
               !.cold = IF r.depth = 0 THEN raw = Null ELSE @,
               !.startLoads = IF r.depth = 0 THEN loaderCalls ELSE @]
      r2 == IF WellFormed(v) THEN [Done(r1, EntryValue(v)) EXCEPT !.did = TRUE] ELSE r1
  IN IF ~Truthy(v) THEN LoadRace(r2) ELSE [r2 EXCEPT !.pc = "ttl"]

\* a needsRefresh that always asks for a refresh
needsRefreshAlways(t) == TRUE

\* a needsRefresh that compares with the expiry the entry was stored with
needsRefreshStored(t) == IF t = -2 THEN TRUE ELSE t <= ttl * 2

\* a needsRefresh that asks for a refresh only below options.ttl
needsRefreshBelow(t) == IF t = -2 THEN TRUE ELSE t < ttl

\* needsRefresh: absent, or at most options.ttl seconds left
needsRefresh(t) == IF t = -2 THEN TRUE ELSE t <= ttl

\* a load that never re-reads
AfterRaceStop(r, executed) == [r EXCEPT !.pc = "end"]

\* a load that re-reads whenever it did not run the loader, answered or not
AfterRaceAgain(r, executed) ==
  IF ~executed
    THEN [r EXCEPT !.pc = "get", !.v = Null, !.raw = Null, !.ttlSeen = -3,
                   !.depth = @ + 1,
                   !.loadArgs = <<getBaseKey(r.loadArgs)>>,
                   !.token = Null, !.acquired = FALSE, !.ops = {}]
    ELSE [r EXCEPT !.pc = "end"]

\* load lines 183-185: after race returned
AfterRace(r, executed) ==
  IF ~executed /\ ~r.did
    THEN \* this.load(origKey).then(done).catch(reject): a new frame whose
         \* outcome is the outcome of this call
         [r EXCEPT !.pc = "get", !.v = Null, !.raw = Null, !.ttlSeen = -3,
                   !.depth = @ + 1,
                   !.loadArgs = <<getBaseKey(r.loadArgs)>>,
                   !.token = Null, !.acquired = FALSE, !.ops = {}]
    ELSE [r EXCEPT !.pc = "end"]

\* race returns {executed, result} to its caller
RaceReturn(r, executed, res) ==
  IF r.kind = "load" THEN AfterRace(r, executed)
  ELSE [Settle(r, "resolved", [executed |-> executed, result |-> res]) EXCEPT !.pc = "end"]

\* race throws to its caller
RaceThrow(r, e) ==
  IF r.kind = "load" THEN LoadCatch(r, e)
  ELSE [Settle(r, "rejected", e) EXCEPT !.pc = "end"]

\* a load that reads and writes the data key of "u1" whatever its key is
LoadKeyShared(c) == getKey("u1")

\* let key = this.getKey(origKey)
LoadKey(c) == getKeyOf(call[c].loader, call[c].origKey)

\* the did flag of the frame the caller started: a frame that re-read through
\* this.load(origKey) had did = false at line 183 and runs no code afterwards
OuterDid(c) == IF call[c].depth = 0 THEN call[c].did ELSE FALSE

\* a store operation fails with a transport error
Fault == faults < MaxFaults /\ faults' = faults + 1

\* const rawValue = await this.redis.get(key)
LoadGet(c) ==
  /\ call[c].kind = "load" /\ call[c].pc = "get"
  /\ call' = [call EXCEPT ![c] = LoadRead(@, RedisGet(LoadKey(c)))]
  /\ UNCHANGED <<redis, loaderCalls, loaderLog, faults, lockExpired>>

\* a load that takes a failed read for a miss
LoadGetMiss(c) ==
  /\ call[c].kind = "load" /\ call[c].pc = "get"
  /\ Fault
  /\ call' = [call EXCEPT ![c] = LoadRead(@, Null)]
  /\ UNCHANGED <<redis, loaderCalls, loaderLog, lockExpired>>

\* redis.get rejects: the catch of load takes it
LoadGetFail(c) ==
  /\ call[c].kind = "load" /\ call[c].pc = "get"
  /\ Fault
  /\ call' = [call EXCEPT ![c] = LoadCatch(Issue(@, "get"), StoreErr("get"))]
  /\ UNCHANGED <<redis, loaderCalls, loaderLog, lockExpired>>

\* await this.needsRefresh(key), then the call of race
LoadTtl(c) ==
  /\ call[c].kind = "load" /\ call[c].pc = "ttl"
  /\ LET t == RedisTtl(LoadKey(c))
         r == [Issue(call[c], "ttl") EXCEPT !.ttlSeen = t]
     IN call' = [call EXCEPT ![c] =
                   IF needsRefresh(t) THEN LoadRace(r) ELSE [r EXCEPT !.pc = "end"]]
  /\ UNCHANGED <<redis, loaderCalls, loaderLog, faults, lockExpired>>

\* redis.ttl rejects: needsRefresh catches it and answers true
LoadTtlFail(c) ==
  /\ call[c].kind = "load" /\ call[c].pc = "ttl"
  /\ Fault
  /\ call' = [call EXCEPT ![c] = LoadRace([Issue(@, "ttl") EXCEPT !.ttlSeen = -4])]
  /\ UNCHANGED <<redis, loaderCalls, loaderLog, lockExpired>>

\* ---------------------------------------------------------- Lock.race
LockKey(c) ==
  IF call[c].kind = "all" THEN allKey(call[c].origKey) ELSE raceKey(call[c].origKey)

\* history: another call has already run its release on the lock key of c
Released(c) ==
  \E d \in Calls \ {c} :
    /\ call[d].kind # "none" /\ LockKey(d) = LockKey(c)
    /\ "eval" \in call[d].ops

\* where the task of a call begins
TaskPc(r) == IF r.kind = "load" THEN "loader" ELSE "task"

\* a getRaceLock whose caller runs the task although the SET NX was refused
RaceContendedRuns(r) == [r EXCEPT !.pc = TaskPc(r)]

\* a getRaceLock that never waits
RaceContendedSkips(r) == RaceReturn([r EXCEPT !.token = Null], FALSE, Null)

\* getRaceLock after a SET NX that did not answer OK: skip, or start to wait
RaceContended(r) ==
  IF r.ignore
    THEN RaceReturn([r EXCEPT !.token = Null], FALSE, Null)
    ELSE [r EXCEPT !.delayed = TRUE, !.pc = "poll"]

\* getRaceLock: let r = await this.redis.set(key, token, 'PX', timeout, 'NX')
RaceSetNX(c) ==
  /\ call[c].kind \in {"load", "race"} /\ call[c].pc = "setnx"
  /\ LET r == [Issue(call[c], "setnx") EXCEPT !.late = (call[c].kind = "race" /\ Released(c))] IN
     \/ /\ RedisSetNXOk(LockKey(c))
        /\ redis' = RedisSet(LockKey(c), r.token, r.timeout)
        /\ call' = [call EXCEPT ![c] = [r EXCEPT !.acquired = TRUE, !.pc = TaskPc(r)]]
     \/ /\ ~RedisSetNXOk(LockKey(c))
        /\ call' = [call EXCEPT ![c] = RaceContended(r)]
        /\ UNCHANGED redis
  /\ UNCHANGED <<loaderCalls, loaderLog, faults, lockExpired>>

\* the SET NX rejects: race throws
RaceSetNXFail(c) ==
  /\ call[c].kind \in {"load", "race"} /\ call[c].pc = "setnx"
  /\ Fault
  /\ call' = [call EXCEPT ![c] = RaceThrow(Issue(@, "setnx"), StoreErr("setnx"))]
  /\ UNCHANGED <<redis, loaderCalls, loaderLog, lockExpired>>

\* getRaceLock, the wait loop: after the delay, const currentValue = await
\* this.redis.get(key); the loop goes round while the key is there
RacePoll(c) ==
  /\ call[c].kind \in {"load", "race"} /\ call[c].pc = "poll"
  /\ LET r == Issue(call[c], "lockget") IN
     \/ /\ RedisGet(LockKey(c)) = Null
        /\ call' = [call EXCEPT ![c] = RaceReturn([r EXCEPT !.token = Null], FALSE, Null)]
     \/ /\ RedisGet(LockKey(c)) # Null
        /\ call' = [call EXCEPT ![c] = r]
  /\ UNCHANGED <<redis, loaderCalls, loaderLog, faults, lockExpired>>

\* the get of the wait loop rejects: race throws
RacePollFail(c) ==
  /\ call[c].kind \in {"load", "race"} /\ call[c].pc = "poll"
  /\ Fault
  /\ call' = [call EXCEPT ![c] = RaceThrow(Issue(@, "lockget"), StoreErr("lockget"))]
  /\ UNCHANGED <<redis, loaderCalls, loaderLog, lockExpired>>

\* the n-th invocation of the user loader returns n (a counting loader)
LoaderValue(n) == Num(n)

\* the user loader is invoked
Invoke ==
  /\ loaderCalls' = loaderCalls + 1
  /\ loaderLog' = [loaderLog EXCEPT ![1] = @ + 1]

\* the refresh task, first half: let newData = await this.loader(...args)
LoaderRun(c) ==
  /\ call[c].kind = "load" /\ call[c].pc = "loader"
  /\ Invoke
  /\ call' = [call EXCEPT ![c] =
                [Issue(@, "loader") EXCEPT !.newData = LoaderValue(loaderCalls + 1),
                                           !.given = call[c].loadArgs,
                                           !.runs = @ + 1,
                                           !.pc = "prime"]]
  /\ UNCHANGED <<redis, faults, lockExpired>>

\* a catch that annotates whatever it is given
TaskCatchAll(r, e) == [r EXCEPT !.err = Annotate(AsError(e)), !.pc = "release"]

\* the catch of the refresh task: an error with a code is thrown on as it is;
\* anything else is made an Error if it is none, annotated and thrown on
TaskCatch(r, e) ==
  IF HasCode(e)
    THEN [r EXCEPT !.err = e, !.pc = "release"]
    ELSE [r EXCEPT !.err = Annotate(AsError(e)), !.pc = "release"]

\* the user loader throws e
LoaderThrows(c, e) ==
  /\ call[c].kind = "load" /\ call[c].pc = "loader"
  /\ Invoke
  /\ call' = [call EXCEPT ![c] =
                TaskCatch([Issue(@, "loader") EXCEPT !.given = call[c].loadArgs,
                                                     !.thrown = e,
                                                     !.runs = @ + 1], e)]
  /\ UNCHANGED <<redis, faults, lockExpired>>

\* the user loader throws an Error without code
LoaderThrow(c) == LoaderThrows(c, LoaderErr)

\* what the user loader may throw: an Error without code, an Error with a
\* code, a string
Thrown == {LoaderErr, LoaderErrCode, LoaderText}

\* the user loader throws one of these
LoaderThrowAny(c) == \E e \in Thrown : LoaderThrows(c, e)

\* a prime whose entry lives for ttl seconds only
primeShort(origKey, value) == RedisSet(getKey(origKey), JsonStringify(Now, value), ttl)

\* a prime that writes only where no entry is (a set with the NX option)
primeAbsent(origKey, value) ==
  IF redis[getKey(origKey)] = Absent
    THEN RedisSet(getKey(origKey), JsonStringify(Now, value), ttl * 2)
    ELSE redis

\* prime: redis.set(key, JSON.stringify({createTime, value}), 'EX', ttl * 2)
prime(origKey, value) == RedisSet(getKey(origKey), JsonStringify(Now, value), ttl * 2)

\* this.prime of the loader named n
primeOn(n, origKey, value) ==
  IF n = name THEN prime(origKey, value)
  ELSE RedisSet(getKeyOf(n, origKey), JsonStringify(Now, value), ttl * 2)

\* a refresh task that answers without looking at did
TaskDoneAgain(r) == [Done(r, r.newData) EXCEPT !.did = TRUE]

\* the refresh task after the prime: if (!did) { done(newData); did = true }
TaskDone(r) == IF ~r.did THEN [Done(r, r.newData) EXCEPT !.did = TRUE] ELSE r

\* the refresh task, second half: await this.prime(origKey, newData), then the
\* answer to a caller that has none yet
LoadPrime(c) ==
  /\ call[c].kind = "load" /\ call[c].pc = "prime"
  /\ redis' = primeOn(call[c].loader, call[c].origKey, call[c].newData)
  /\ call' = [call EXCEPT ![c] = [TaskDone(Issue(@, "set")) EXCEPT !.pc = "release"]]
  /\ UNCHANGED <<loaderCalls, loaderLog, faults, lockExpired>>

\* the set of prime rejects: the catch of the refresh task takes it
LoadPrimeFail(c) ==
  /\ call[c].kind = "load" /\ call[c].pc = "prime"
  /\ Fault
  /\ call' = [call EXCEPT ![c] = TaskCatch(Issue(@, "set"), StoreErr("set"))]
  /\ UNCHANGED <<redis, loaderCalls, loaderLog, lockExpired>>

\* a race that reports a task error as executed: false instead of throwing it
RaceFinishQuiet(r) == RaceReturn(r, r.err = NoErr, IF r.err = NoErr THEN r.newData ELSE Null)

\* race after the release: throw the task's error, or return executed: true
RaceFinish(r) ==
  IF r.err # NoErr THEN RaceThrow(r, r.err) ELSE RaceReturn(r, TRUE, r.newData)

\* race lines 185-198: the token-guarded release
RaceRelease(c) ==
  /\ call[c].kind \in {"load", "race"} /\ call[c].pc = "release"
  /\ LET rel == releaseScript(LockKey(c), call[c].token) IN
     /\ redis' = rel.store
     /\ call' = [call EXCEPT ![c] = RaceFinish([Issue(@, "eval") EXCEPT !.relRes = rel.result])]
  /\ UNCHANGED <<loaderCalls, loaderLog, faults, lockExpired>>

\* a race that throws the error of its release
RaceReleaseThrows(c) ==
  /\ call[c].kind \in {"load", "race"} /\ call[c].pc = "release"
  /\ Fault
  /\ call' = [call EXCEPT ![c] = RaceThrow(Issue(@, "eval"), StoreErr("eval"))]
  /\ UNCHANGED <<redis, loaderCalls, loaderLog, lockExpired>>

\* the eval rejects: the failure is logged and race goes on
RaceReleaseFail(c) ==
  /\ call[c].kind \in {"load", "race"} /\ call[c].pc = "release"
  /\ Fault
  /\ call' = [call EXCEPT ![c] = RaceFinish(Issue(@, "eval"))]
  /\ UNCHANGED <<redis, loaderCalls, loaderLog, lockExpired>>

\* ------------------------------------------------------------- time
\* one second passes
Tick ==
  /\ redis' = Expire(redis)
  /\ loaderLog' = <<0>> \o SubSeq(loaderLog, 1, LogLen - 1)
  /\ lockExpired' = (lockExpired \/ \E k \in LockKeys : redis[k] # Absent /\ redis'[k] = Absent)
  /\ UNCHANGED <<call, loaderCalls, faults>>

\* ------------------------------------------------- specification Spec
\* what an earlier load left under the data key, e seconds before its expiry
Earlier(e) == [val |-> JsonStringify(Now, Num(0)), exp |-> e]

\* n load calls for one key; d is what the store holds under the data key
InitLoad(n, d) ==
  /\ redis = [k \in Keys |-> IF k = getKey("u1") THEN d ELSE Absent]
  /\ call = [c \in Calls |-> NewCall(c, IF c <= n THEN "load" ELSE "none", "u1", <<>>)]
  /\ loaderCalls = 0
  /\ loaderLog = [i \in 1..LogLen |-> 0]
  /\ faults = 0
  /\ lockExpired = FALSE

\* on an empty store
Init == InitLoad(NLoad, Absent)

\* the steps of load when the store and the loader do what they are asked
LoadStep(c) ==
  \/ LoadGet(c)
  \/ LoadTtl(c)
  \/ RaceSetNX(c)
  \/ RacePoll(c)
  \/ LoaderRun(c)
  \/ LoadPrime(c)
  \/ RaceRelease(c)

\* the steps of load in which the store or the loader fails
LoadFail(c) ==
  \/ LoadGetFail(c)
  \/ LoadTtlFail(c)
  \/ RaceSetNXFail(c)
  \/ RacePollFail(c)
  \/ LoaderThrow(c)
  \/ LoadPrimeFail(c)
  \/ RaceReleaseFail(c)

Next ==
  \/ \E c \in Calls : LoadStep(c)
  \/ \E c \in Calls : LoadFail(c)
  \/ Tick

Spec == Init /\ [][Next]_vars

\* -------------------------------------------- specification SpecHeavy
\* more callers, all within one second, a store and a loader that never fail
InitHeavy == InitLoad(NHeavy, Absent)

NextHeavy == \E c \in Calls : LoadStep(c)

SpecHeavy == InitHeavy /\ [][NextHeavy]_vars

\* ------------------------------------------ specification SpecFailing
\* the steps of a load whose loader always raises: no entry is ever written
FailingStep(c) ==
  \/ LoadGet(c)
  \/ RaceSetNX(c)
  \/ RacePoll(c)
  \/ LoaderThrow(c)
  \/ RaceRelease(c)

NextFailing ==
  \/ \E c \in Calls : FailingStep(c)
  \/ Tick

\* NHeavy concurrent loads on a cold cache, a loader that always raises; every
\* call that can take a step takes it
SpecFailing ==
  InitHeavy /\ [][NextFailing]_vars /\ \A c \in 1..NHeavy : WF_vars(FailingStep(c))

\* --------------------------------------------- specification SpecWarm
\* the calls find the entry an earlier load has just written; the store and
\* the loader never fail
InitWarm == InitLoad(NLoad, Earlier(ttl * 2))

NextWarm ==
  \/ \E c \in Calls : LoadStep(c)
  \/ Tick

SpecWarm == InitWarm /\ [][NextWarm]_vars

\* --------------------------------------------- specification SpecSolo
\* a race lock left behind by a caller of another process that never released
Foreign == Token(0, 0)

\* one load call; the store holds no entry or an entry an earlier load wrote
\* some seconds ago, and the race lock is free or held by another process;
\* store operations and the loader may fail, time passes
InitSolo ==
  /\ \E d \in {Absent} \cup {Earlier(e) : e \in 1..(ttl * 2)},
        l \in {Absent, [val |-> Foreign, exp |-> defaultTimeout]} :
       redis = [k \in Keys |-> IF k = getKey("u1") THEN d
                               ELSE IF k = raceKey("u1") THEN l ELSE Absent]
  /\ call = [c \in Calls |-> NewCall(c, IF c = 1 THEN "load" ELSE "none", "u1", <<>>)]
  /\ loaderCalls = 0
  /\ loaderLog = [i \in 1..LogLen |-> 0]
  /\ faults = 0
  /\ lockExpired = FALSE

SpecSolo == InitSolo /\ [][Next]_vars

\* --------------------------------------------- specification SpecArgs
\* two load calls on an empty store, each with one of the argument lists; the
\* store never fails, the loader may raise, all within one second
InitArgs ==
  /\ redis = [k \in Keys |-> Absent]
  /\ \E a \in ArgForms, b \in ArgForms :
       call = [c \in Calls |-> CASE c = 1 -> NewLoad(1, a)
                                 [] c = 2 -> NewLoad(2, b)
                                 [] OTHER -> NewCall(c, "none", "u1", <<>>)]
  /\ loaderCalls = 0
  /\ loaderLog = [i \in 1..LogLen |-> 0]
  /\ faults = 0
  /\ lockExpired = FALSE

ArgsStep(c) ==
  \/ LoadStep(c)
  \/ LoaderThrow(c)

NextArgs == \E c \in Calls : ArgsStep(c)

SpecArgs == InitArgs /\ [][NextArgs]_vars

\* ------------------------------------------ Lock.race, Lock.all called
\* all(lockName, timeout, task): a function in second place is the task and
\* the timeout is the default one
AllTimeout(a2, a3) ==
  IF ~Truthy(a3) /\ a2.t = "function" THEN defaultTimeout ELSE a2.n

AllTaskOk(a2, a3) ==
  IF ~Truthy(a3) /\ a2.t = "function" THEN TRUE ELSE a3.t = "function"

BadTask == [t |-> "error", kind |-> "badTask", op |-> "call", annotated |-> FALSE]

\* race / all from the call to the first SET NX: the argument checks, the token
LockEnter(r) ==
  LET a2 == r.args[1]
      a3 == r.args[2]
      a4 == r.args[3]
  IN IF ~Truthy(r.lockName) THEN [Settle(r, "rejected", NeedLockName) EXCEPT !.pc = "end"]
     ELSE IF r.kind = "race"
       THEN IF ~RaceTaskOk(a2, a3) THEN [Settle(r, "rejected", BadTask) EXCEPT !.pc = "end"]
            ELSE [r EXCEPT !.pc = "setnx",
                           !.ignore = RaceIgnore(a2, a3, a4),
                           !.timeout = RaceTimeout(a2),
                           !.token = Token(r.id, 0)]
       ELSE IF ~AllTaskOk(a2, a3) THEN [Settle(r, "rejected", BadTask) EXCEPT !.pc = "end"]
            ELSE [r EXCEPT !.pc = "allnx",
                           !.timeout = AllTimeout(a2, a3),
                           !.token = Token(r.id, 0)]

\* history: the number of calls that have ended
Ended == Cardinality({d \in Calls : call[d].kind # "none" /\ call[d].pc = "end"})

\* lock.race(...) or lock.all(...) is called
LockCall(c) ==
  /\ call[c].kind \in {"race", "all"} /\ call[c].pc = "enter"
  /\ call' = [call EXCEPT ![c] = LockEnter([@ EXCEPT !.prior = Ended])]
  /\ UNCHANGED <<redis, loaderCalls, loaderLog, faults, lockExpired>>

\* history: the calls of all on the lock key of c that have made an attempt
Arrived(c) ==
  {d \in Calls : call[d].kind = "all" /\ LockKey(d) = LockKey(c) /\ call[d].arrived > 0}

\* history: the calls of all on the lock key of c that have acquired
Acquired(c) ==
  {d \in Calls : call[d].kind = "all" /\ LockKey(d) = LockKey(c) /\ call[d].turn > 0}

\* a getAllLock that stops waiting at the first refusal and lets the task run
AllRefusedRuns(r) == [r EXCEPT !.delayed = TRUE, !.pc = "task"]

\* getAllLock after a SET NX that did not answer OK: delayed = true, the delay,
\* and the loop goes round
AllRefused(r) == [r EXCEPT !.delayed = TRUE]

\* getAllLock: SET NX until it answers OK, a delay after every refusal
AllSetNX(c) ==
  /\ call[c].kind = "all" /\ call[c].pc = "allnx"
  /\ LET r == [Issue(call[c], "setnx") EXCEPT
                 !.arrived = IF @ = 0 THEN Cardinality(Arrived(c)) + 1 ELSE @] IN
     \/ /\ RedisSetNXOk(LockKey(c))
        /\ redis' = RedisSet(LockKey(c), r.token, r.timeout)
        /\ call' = [call EXCEPT ![c] = [r EXCEPT !.acquired = TRUE, !.pc = "task",
                                                 !.turn = Cardinality(Acquired(c)) + 1]]
     \/ /\ ~RedisSetNXOk(LockKey(c))
        /\ call' = [call EXCEPT ![c] = AllRefused(r)]
        /\ UNCHANGED redis
  /\ UNCHANGED <<loaderCalls, loaderLog, faults, lockExpired>>

\* the SET NX of getAllLock rejects: all throws, nothing was acquired
AllSetNXFail(c) ==
  /\ call[c].kind = "all" /\ call[c].pc = "allnx"
  /\ Fault
  /\ call' = [call EXCEPT ![c] =
                [Settle(Issue(@, "setnx"), "rejected", StoreErr("setnx")) EXCEPT !.pc = "end"]]
  /\ UNCHANGED <<redis, loaderCalls, loaderLog, lockExpired>>

\* what the task of call c returns
TaskValue(c) == Num(c)

\* a caller that returns the task's result at once and leaves the lock behind
TaskReturnUnreleased(c) ==
  /\ call[c].kind \in {"race", "all"} /\ call[c].pc = "task"
  /\ call' = [call EXCEPT ![c] =
                [Settle([Issue(@, "task") EXCEPT !.newData = TaskValue(c), !.runs = @ + 1],
                        "resolved", TaskValue(c)) EXCEPT !.pc = "end"]]
  /\ UNCHANGED <<redis, loaderCalls, loaderLog, faults, lockExpired>>

\* result = await task(delayed): the task returns
TaskReturn(c) ==
  /\ call[c].kind \in {"race", "all"} /\ call[c].pc = "task"
  /\ call' = [call EXCEPT ![c] =
                [Issue(@, "task") EXCEPT !.newData = TaskValue(c), !.runs = @ + 1,
                                         !.pc = "release"]]
  /\ UNCHANGED <<redis, loaderCalls, loaderLog, faults, lockExpired>>

\* a task error that is thrown on at once, past the release
TaskThrowEarly(c) ==
  /\ call[c].kind \in {"race", "all"} /\ call[c].pc = "task"
  /\ call' = [call EXCEPT ![c] =
                [Settle([Issue(@, "task") EXCEPT !.err = TaskErr(c), !.runs = @ + 1],
                        "rejected", TaskErr(c)) EXCEPT !.pc = "end"]]
  /\ UNCHANGED <<redis, loaderCalls, loaderLog, faults, lockExpired>>

\* the task throws: err = _err, kept until after the release
TaskThrow(c) ==
  /\ call[c].kind \in {"race", "all"} /\ call[c].pc = "task"
  /\ call' = [call EXCEPT ![c] =
                [Issue(@, "task") EXCEPT !.err = TaskErr(c), !.runs = @ + 1, !.pc = "release"]]
  /\ UNCHANGED <<redis, loaderCalls, loaderLog, faults, lockExpired>>

\* an all that throws when its release finds the lock lost
AllFinishLost(r) ==
  IF r.err # NoErr \/ r.relRes = 0
    THEN [Settle(r, "rejected", IF r.err # NoErr THEN r.err ELSE StoreErr("eval")) EXCEPT !.pc = "end"]
    ELSE [Settle(r, "resolved", r.newData) EXCEPT !.pc = "end"]

\* all after the release: if (err) throw err; return result
AllFinish(r) ==
  IF r.err # NoErr
    THEN [Settle(r, "rejected", r.err) EXCEPT !.pc = "end"]
    ELSE [Settle(r, "resolved", r.newData) EXCEPT !.pc = "end"]

\* all lines 129-138: the token-guarded release
AllRelease(c) ==
  /\ call[c].kind = "all" /\ call[c].pc = "release"
  /\ LET rel == releaseScript(LockKey(c), call[c].token) IN
     /\ redis' = rel.store
     /\ call' = [call EXCEPT ![c] = AllFinish([Issue(@, "eval") EXCEPT !.relRes = rel.result])]
  /\ UNCHANGED <<loaderCalls, loaderLog, faults, lockExpired>>

\* the eval rejects: the failure is logged and all goes on
AllReleaseFail(c) ==
  /\ call[c].kind = "all" /\ call[c].pc = "release"
  /\ Fault
  /\ call' = [call EXCEPT ![c] = AllFinish(Issue(@, "eval"))]
  /\ UNCHANGED <<redis, loaderCalls, loaderLog, lockExpired>>

\* --------------------------------------------- specification SpecLock
\* the ways race is called on a lock name: with and without timeout and ignore
RaceArgs ==
  {<<Fn, ig, Undefined>> : ig \in {Undefined, Bool(TRUE), Bool(FALSE)}}
  \cup {<<Num(t), Fn, ig>> : t \in 1..MaxTimeout, ig \in {Undefined, Bool(TRUE), Bool(FALSE)}}

\* the ways all is called
AllArgs ==
  {<<Fn, Undefined, Undefined>>} \cup {<<Num(t), Fn, Undefined>> : t \in 1..MaxTimeout}

\* NLock calls of race or all on one lock name
InitLock ==
  /\ redis = [k \in Keys |-> Absent]
  /\ \E kinds \in [1..NLock -> {"race", "all"}] :
       \E a \in [1..NLock -> RaceArgs \cup AllArgs] :
         /\ \A c \in 1..NLock : a[c] \in (IF kinds[c] = "race" THEN RaceArgs ELSE AllArgs)
         /\ call = [c \in Calls |->
                      IF c <= NLock THEN NewCall(c, kinds[c], "u1", a[c])
                      ELSE NewCall(c, "none", "u1", <<>>)]
  /\ loaderCalls = 0
  /\ loaderLog = [i \in 1..LogLen |-> 0]
  /\ faults = 0
  /\ lockExpired = FALSE

LockStep(c) ==
  \/ LockCall(c)
  \/ RaceSetNX(c)
  \/ RacePoll(c)
  \/ AllSetNX(c)
  \/ TaskReturn(c)
  \/ TaskThrow(c)
  \/ RaceRelease(c)
  \/ AllRelease(c)

LockFail(c) ==
  \/ RaceSetNXFail(c)
  \/ RacePollFail(c)
  \/ AllSetNXFail(c)
  \/ RaceReleaseFail(c)
  \/ AllReleaseFail(c)

NextLock ==
  \/ \E c \in Calls : LockStep(c)
  \/ \E c \in Calls : LockFail(c)
  \/ Tick

SpecLock == InitLock /\ [][NextLock]_vars

\* every call that can take a step takes it: the event loop runs each pending
\* continuation, the store answers, a task ends
SpecLockFair == SpecLock /\ \A c \in 1..NLock : WF_vars(LockStep(c))

\* -------------------------------------------- specification SpecOrder
\* NOrder calls of all(lockName, task) on one lock name; the store and the
\* tasks never fail, all within one second (no lock expires)
InitOrder ==
  /\ redis = [k \in Keys |-> Absent]
  /\ call = [c \in Calls |->
               IF c <= NOrder THEN NewLock(c, "all", Str("u1"), <<Fn, Undefined, Undefined>>)
               ELSE NewCall(c, "none", "u1", <<>>)]
  /\ loaderCalls = 0
  /\ loaderLog = [i \in 1..LogLen |-> 0]
  /\ faults = 0
  /\ lockExpired = FALSE

OrderStep(c) ==
  \/ LockCall(c)
  \/ AllSetNX(c)
  \/ TaskReturn(c)
  \/ AllRelease(c)

NextOrder == \E c \in Calls : OrderStep(c)

SpecOrder == InitOrder /\ [][NextOrder]_vars

\* -------------------------------------------- specification SpecNames
\* the lock names and keys of specification SpecNames
Names == {Str("u1"), Str("u2"), Num(1), Str("1")}

\* two calls of all, each on one of the lock names, or two load calls, each for
\* one of the keys, on an empty cache or on entries due for a refresh; the
\* store and the tasks never fail, all within one second
InitNames ==
  /\ \E n1 \in Names, n2 \in Names :
       \/ /\ redis = [k \in Keys |-> Absent]
          /\ call = [c \in Calls |->
                       CASE c = 1 -> NewLock(1, "all", n1, <<Fn, Undefined, Undefined>>)
                         [] c = 2 -> NewLock(2, "all", n2, <<Fn, Undefined, Undefined>>)
                         [] OTHER -> NewCall(c, "none", "u1", <<>>)]
       \/ /\ \E d \in {Absent, Earlier(ttl)} :
               redis = [k \in Keys |-> IF k \in DataKeys THEN d ELSE Absent]
          /\ call = [c \in Calls |->
                       CASE c = 1 -> NewLoad(1, <<n1>>)
                         [] c = 2 -> NewLoad(2, <<n2>>)
                         [] OTHER -> NewCall(c, "none", "u1", <<>>)]
  /\ loaderCalls = 0
  /\ loaderLog = [i \in 1..LogLen |-> 0]
  /\ faults = 0
  /\ lockExpired = FALSE

NamesStep(c) ==
  \/ LoadStep(c)
  \/ LockCall(c)
  \/ AllSetNX(c)
  \/ TaskReturn(c)
  \/ AllRelease(c)

NextNames == \E c \in Calls : NamesStep(c)

SpecNames == InitNames /\ [][NextNames]_vars

\* ---------------------------------------------- specification SpecNew
\* a string given by its characters
Chars(cs) == [t |-> "string", chars |-> cs]

Lower ==
  {"a", "b", "c", "d", "e", "f", "g", "h", "i", "j", "k", "l", "m",
   "n", "o", "p", "q", "r", "s", "t", "u", "v", "w", "x", "y", "z"}

Upper ==
  {"A", "B", "C", "D", "E", "F", "G", "H", "I", "J", "K", "L", "M",
   "N", "O", "P", "Q", "R", "S", "T", "U", "V", "W", "X", "Y", "Z"}

Digits == {"0", "1", "2", "3", "4", "5", "6", "7", "8", "9"}

\* the character class [a-z0-9\:\_\-\.\[\]] under the flag i
NameChars == Lower \cup Upper \cup Digits \cup {":", "_", "-", ".", "[", "]"}

\* name.match(/^[a-z0-9\:\_\-\.\[\]]+$/i) for a string
NameMatch(x) == Len(x.chars) > 0 /\ \A i \in 1..Len(x.chars) : x.chars[i] \in NameChars

\* the redis instance handed to a constructor
Redis == [t |-> "redis"]

\* an options object with the given entries
Options(o) == [t |-> "options", o |-> o]

\* the default of options.ttl
defaultTtl == 30

\* the least options.ttl a loader is constructed with
minTtl == 2

\* the defaults of the NWLoader options
Defaults == [redis |-> Null, ttl |-> Num(defaultTtl), keyPrefix |-> Str(keyPrefix)]

\* Object.assign(defaults, options): the entries of options replace the defaults
Assign(d, options) ==
  IF ~Truthy(options) THEN d
  ELSE [f \in DOMAIN d \cup DOMAIN options.o |->
          IF f \in DOMAIN options.o THEN options.o[f] ELSE d[f]]

\* x < n in JavaScript for the values an option can have
Less(x, n) ==
  CASE x.t = "number" -> x.n < n
    [] x.t = "null" -> 0 < n
    [] OTHER -> FALSE

InvalidName == [t |-> "error", kind |-> "invalidName", op |-> "new", annotated |-> FALSE]

\* name.match is not a function
TypeError == [t |-> "error", kind |-> "typeError", op |-> "new", annotated |-> FALSE]

TtlTooSmall == [t |-> "error", kind |-> "ttlTooSmall", op |-> "new", annotated |-> FALSE]

NeedRedis == [t |-> "error", kind |-> "needRedis", op |-> "new", annotated |-> FALSE]

CacheableNeedsRedis ==
  [t |-> "error", kind |-> "needRedis", op |-> "cacheable", annotated |-> FALSE]

\* a ttl check that lets ttl = 1 through
ttlRefusedBelowOne(options) == Less(options.ttl, 1)

\* if (this.options.ttl < 2) throw
ttlRefused(options) == Less(options.ttl, minTtl)

\* new NWLoader(name, loader, options): the error thrown, or the loader made
Construct(nameArg, options) ==
  IF ~Truthy(nameArg) THEN [thrown |-> TRUE, err |-> InvalidName]
  ELSE IF nameArg.t # "string" THEN [thrown |-> TRUE, err |-> TypeError]
  ELSE IF ~NameMatch(nameArg) THEN [thrown |-> TRUE, err |-> InvalidName]
  ELSE LET o == Assign(Defaults, options) IN
       IF ttlRefused(o) THEN [thrown |-> TRUE, err |-> TtlTooSmall]
       ELSE IF ~Truthy(o.redis) THEN [thrown |-> TRUE, err |-> NeedRedis]
       ELSE [thrown |-> FALSE,
             loader |-> [t |-> "loader", name |-> nameArg, options |-> o]]

\* the end of a constructor call
Constructed(r, made) ==
  IF made.thrown THEN [Settle(r, "rejected", made.err) EXCEPT !.pc = "end"]
  ELSE [Settle(r, "resolved", made.loader) EXCEPT !.pc = "end"]

\* new NWLoader(name, loader, options) is evaluated
NewLoader(c) ==
  /\ call[c].kind = "new" /\ call[c].pc = "enter"
  /\ call' = [call EXCEPT ![c] = Constructed(@, Construct(@.args[1], @.args[2]))]
  /\ UNCHANGED <<redis, loaderCalls, loaderLog, faults, lockExpired>>

\* cacheable(name, options) returns the decorator; nothing is looked at yet
Cacheable(c) ==
  /\ call[c].kind = "cacheable" /\ call[c].pc = "enter"
  /\ call' = [call EXCEPT ![c] = [@ EXCEPT !.pc = "decorate"]]
  /\ UNCHANGED <<redis, loaderCalls, loaderLog, faults, lockExpired>>

\* the decorator is applied to the function: options.redis is looked at, then
\* the loader is constructed
Decorate(c) ==
  /\ call[c].kind = "cacheable" /\ call[c].pc = "decorate"
  /\ LET nameArg == call[c].args[1]
         options == call[c].args[2]
     IN call' = [call EXCEPT ![c] =
                   IF ~Truthy(options) \/ "redis" \notin DOMAIN options.o
                      \/ ~Truthy(options.o.redis)
                     THEN [Settle(@, "rejected", CacheableNeedsRedis) EXCEPT !.pc = "end"]
                     ELSE Constructed(@, Construct(nameArg, options))]
  /\ UNCHANGED <<redis, loaderCalls, loaderLog, faults, lockExpired>>

\* the names the constructor is tried with
NameArgs ==
  {Null, Undefined, Num(5), Chars(<<>>), Chars(<<"u", "s", "e", "r">>),
   Chars(<<"a", "/", "b">>), Chars(<<"a", " ">>),
   Chars(<<"R", "1", ":", "_", "-", ".", "[", "]">>)}

\* the values an entry of the options is tried with
OptionValues(f) ==
  CASE f = "redis" -> {Null, Redis}
    [] f = "ttl" -> {Num(0), Num(1), Num(2), Num(3), Num(30), Undefined}
    [] f = "keyPrefix" -> {Str("test-nwloader")}

\* the options the constructor is tried with: none, or any choice of entries
OptionArgs ==
  {Undefined} \cup
  {Options(o) : o \in UNION {
     {x \in [D -> UNION {OptionValues(f) : f \in D}] : \A f \in D : x[f] \in OptionValues(f)} :
       D \in SUBSET {"redis", "ttl", "keyPrefix"}}}

\* one construction, by new or through cacheable, on an empty store
InitNew ==
  /\ redis = [k \in Keys |-> Absent]
  /\ \E kind \in {"new", "cacheable"}, nameArg \in NameArgs, options \in OptionArgs :
       call = [c \in Calls |->
                 IF c = 1 THEN NewCall(1, kind, "u1", <<nameArg, options>>)
                 ELSE NewCall(c, "none", "u1", <<>>)]
  /\ loaderCalls = 0
  /\ loaderLog = [i \in 1..LogLen |-> 0]
  /\ faults = 0
  /\ lockExpired = FALSE

NextNew == \E c \in Calls : NewLoader(c) \/ Cacheable(c) \/ Decorate(c)

SpecNew == InitNew /\ [][NextNew]_vars

\* =============================================================== claims
\* ------------------------------------------------ prime, clear called
\* a clear that deletes every data key
clearAll(key) ==
  [store |-> [k \in Keys |-> IF k \in DataKeys THEN Absent ELSE redis[k]],
   result |-> IF redis[getKey(key)] # Absent THEN Num(1) ELSE Num(0)]

\* clear: redis.del(getKey(key)); return result > 0 ? 1 : 0
clear(key) ==
  [store |-> [redis EXCEPT ![getKey(key)] = Absent],
   result |-> IF redis[getKey(key)] # Absent THEN Num(1) ELSE Num(0)]

\* what the store answers to a SET without the NX option that it has done
SetAnswer == Str("OK")

\* prime(origKey, value) called by the user: resolves to result === 'OK'
PrimeCall(c) ==
  /\ call[c].kind = "prime" /\ call[c].pc = "enter"
  /\ redis' = prime(call[c].origKey, call[c].args[1])
  /\ call' = [call EXCEPT ![c] =
                [Settle(Issue(@, "set"), "resolved", Bool(SetAnswer = Str("OK")))
                   EXCEPT !.pc = "end"]]
  /\ UNCHANGED <<loaderCalls, loaderLog, faults, lockExpired>>

\* the set of prime rejects
PrimeCallFail(c) ==
  /\ call[c].kind = "prime" /\ call[c].pc = "enter"
  /\ Fault
  /\ call' = [call EXCEPT ![c] =
                [Settle(Issue(@, "set"), "rejected", StoreErr("set")) EXCEPT !.pc = "end"]]
  /\ UNCHANGED <<redis, loaderCalls, loaderLog, lockExpired>>

\* clear(key) called by the user
ClearCall(c) ==
  /\ call[c].kind = "clear" /\ call[c].pc = "enter"
  /\ LET cl == clear(call[c].origKey) IN
     /\ redis' = cl.store
     /\ call' = [call EXCEPT ![c] =
                   [Settle(Issue(@, "del"), "resolved", cl.result) EXCEPT
                      !.pc = "end",
                      !.startLoads = loaderCalls,
                      !.busy = \E d \in Calls : call[d].kind = "load" /\ call[d].pc = "prime"]]
  /\ UNCHANGED <<loaderCalls, loaderLog, faults, lockExpired>>

\* the del of clear rejects
ClearCallFail(c) ==
  /\ call[c].kind = "clear" /\ call[c].pc = "enter"
  /\ Fault
  /\ call' = [call EXCEPT ![c] =
                [Settle(Issue(@, "del"), "rejected", StoreErr("del")) EXCEPT !.pc = "end"]]
  /\ UNCHANGED <<redis, loaderCalls, loaderLog, lockExpired>>

\* await prime(...) or await clear(...), then load(...): the load of call c
\* begins when the call before it has returned
LoadAfter(c) ==
  /\ call[c].kind = "load" /\ call[c].pc = "after"
  /\ call[c - 1].pc = "end"
  /\ call' = [call EXCEPT ![c].pc = "get"]
  /\ UNCHANGED <<redis, loaderCalls, loaderLog, faults, lockExpired>>

\* -------------------------------------------- specification SpecCache
\* the values the user primes with
PrimeValues == {Num(7), Undefined, NaN}

\* call 1 is a load in flight, call 2 a prime or a clear, call 3 a load that
\* the caller of call 2 makes once call 2 has returned, all within one second;
\* the entry of "u1" is absent or in the second half of its life, and another
\* key holds an entry
InitCache ==
  /\ \E d \in {Absent, Earlier(ttl)} :
       redis = [k \in Keys |-> CASE k = getKey("u1") -> d
                                  [] k = getKey("u2") -> Earlier(ttl)
                                  [] OTHER -> Absent]
  /\ \E op \in {NewCall(2, "prime", "u1", <<v>>) : v \in PrimeValues}
                \cup {NewCall(2, "clear", "u1", <<>>)} :
       call = [c \in Calls |->
                 CASE c = 1 -> NewCall(1, "load", "u1", <<>>)
                   [] c = 2 -> op
                   [] c = 3 -> [NewCall(3, "load", "u1", <<>>) EXCEPT !.pc = "after"]
                   [] OTHER -> NewCall(c, "none", "u1", <<>>)]
  /\ loaderCalls = 0
  /\ loaderLog = [i \in 1..LogLen |-> 0]
  /\ faults = 0
  /\ lockExpired = FALSE

CacheStep(c) ==
  \/ PrimeCall(c)
  \/ ClearCall(c)
  \/ LoadAfter(c)

CacheFail(c) ==
  \/ PrimeCallFail(c)
  \/ ClearCallFail(c)

NextCache ==
  \/ \E c \in Calls : LoadStep(c)
  \/ \E c \in Calls : CacheStep(c)
  \/ \E c \in Calls : CacheFail(c)

SpecCache == InitCache /\ [][NextCache]_vars

\* ------------------------------------------ specification SpecRefresh
\* needsRefresh(key) called by the user: the TTL probe and the decision
NeedsRefreshCall(c) ==
  /\ call[c].kind = "needsRefresh" /\ call[c].pc = "enter"
  /\ LET t == RedisTtl(getKey(call[c].origKey)) IN
     call' = [call EXCEPT ![c] =
                [Settle(Issue(@, "ttl"), "resolved", Bool(needsRefresh(t)))
                   EXCEPT !.ttlSeen = t, !.pc = "end"]]
  /\ UNCHANGED <<redis, loaderCalls, loaderLog, faults, lockExpired>>

\* redis.ttl rejects: the catch of needsRefresh warns and returns true
NeedsRefreshFail(c) ==
  /\ call[c].kind = "needsRefresh" /\ call[c].pc = "enter"
  /\ Fault
  /\ call' = [call EXCEPT ![c] =
                [Settle(Issue(@, "ttl"), "resolved", Bool(TRUE))
                   EXCEPT !.ttlSeen = -4, !.pc = "end"]]
  /\ UNCHANGED <<redis, loaderCalls, loaderLog, lockExpired>>

\* an entry written without an expiry (by something else than this program)
Unexpiring == [val |-> JsonStringify(Now, Num(0)), exp |-> NoExpiry]

\* one prime and two needsRefresh calls for one key, at any times; the data
\* key is absent, has up to 2 * ttl seconds left (0: less than a second), or
\* has no expiry; the TTL probe may fail
InitRefresh ==
  /\ \E d \in {Absent, Unexpiring} \cup {Earlier(e) : e \in 0..(ttl * 2)} :
       redis = [k \in Keys |-> IF k = getKey("u1") THEN d ELSE Absent]
  /\ call = [c \in Calls |->
               CASE c = 1 -> NewCall(1, "prime", "u1", <<Num(7)>>)
                 [] c \in {2, 3} -> NewCall(c, "needsRefresh", "u1", <<>>)
                 [] OTHER -> NewCall(c, "none", "u1", <<>>)]
  /\ loaderCalls = 0
  /\ loaderLog = [i \in 1..LogLen |-> 0]
  /\ faults = 0
  /\ lockExpired = FALSE

NextRefresh ==
  \/ \E c \in Calls : PrimeCall(c) \/ NeedsRefreshCall(c) \/ NeedsRefreshFail(c)
  \/ Tick

SpecRefresh == InitRefresh /\ [][NextRefresh]_vars

\* ------------------------------------------ specification SpecRelease
\* two calls for one name, each a load, a race(lockName, task, false) or an
\* all(lockName, task), on an empty store; tasks and loaders return or raise;
\* of the store operations only the eval of a release may fail; time passes
InitRelease ==
  /\ redis = [k \in Keys |-> Absent]
  /\ \E kinds \in [1..2 -> {"load", "race", "all"}] :
       call = [c \in Calls |->
                 IF c > 2 THEN NewCall(c, "none", "u1", <<>>)
                 ELSE CASE kinds[c] = "load" -> NewCall(c, "load", "u1", <<>>)
                        [] kinds[c] = "race" ->
                             NewLock(c, "race", Str("u1"), <<Fn, Bool(FALSE), Undefined>>)
                        [] OTHER -> NewLock(c, "all", Str("u1"), <<Fn, Undefined, Undefined>>)]
  /\ loaderCalls = 0
  /\ loaderLog = [i \in 1..LogLen |-> 0]
  /\ faults = 0
  /\ lockExpired = FALSE

ReleaseStep(c) ==
  \/ LoadStep(c)
  \/ LoaderThrow(c)
  \/ LockCall(c)
  \/ AllSetNX(c)
  \/ TaskReturn(c)
  \/ TaskThrow(c)
  \/ AllRelease(c)
  \/ RaceReleaseFail(c)
  \/ AllReleaseFail(c)

NextRelease ==
  \/ \E c \in Calls : ReleaseStep(c)
  \/ Tick

SpecRelease == InitRelease /\ [][NextRelease]_vars

\* --------------------------------------------- specification SpecPair
\* a load call on each of two loaders of different names, for the same key,
\* on one store; both data keys are empty or both hold an entry due for a
\* refresh; the store and the loaders never fail, all within one second
InitPair ==
  /\ \E d \in {Absent, Earlier(ttl)} :
       redis = [k \in Keys |-> IF k \in {getKeyOf(name, "u1"), getKeyOf(otherName, "u1")}
                               THEN d ELSE Absent]
  /\ call = [c \in Calls |->
               CASE c = 1 -> NewCall(1, "load", "u1", <<>>)
                 [] c = 2 -> [NewCall(2, "load", "u1", <<>>) EXCEPT !.loader = otherName]
                 [] OTHER -> NewCall(c, "none", "u1", <<>>)]
  /\ loaderCalls = 0
  /\ loaderLog = [i \in 1..LogLen |-> 0]
  /\ faults = 0
  /\ lockExpired = FALSE

SpecPair == InitPair /\ [][NextHeavy]_vars

\* -------------------------------------------- specification SpecThrow
\* NLoad load calls for one key, on an empty store or on an entry due for a
\* refresh; the loader returns or throws, the store never fails, all within
\* one second
InitThrow == \E d \in {Absent, Earlier(ttl)} : InitLoad(NLoad, d)

ThrowStep(c) ==
  \/ LoadStep(c)
  \/ LoaderThrowAny(c)

NextThrow == \E c \in Calls : ThrowStep(c)

SpecThrow == InitThrow /\ [][NextThrow]_vars

\* --------------------------------------------- specification SpecProv
\* the entry an earlier load of the value n left, e seconds before its expiry
EntryOf(n, e) == [val |-> JsonStringify(Now, Num(n)), exp |-> e]

\* what the data key of "u1" and of "u2" may hold: nothing, or an entry, fresh
\* or due for a refresh, whose value no loader invocation returns
HeldBy(k) ==
  LET n == IF k = "u1" THEN -1 ELSE -2
  IN {Absent, EntryOf(n, ttl), EntryOf(n, ttl * 2)}

\* two load calls, each for "u1" or "u2"; the loader returns or throws, the
\* store never fails, all within one second
InitProv ==
  /\ \E d1 \in HeldBy("u1"), d2 \in HeldBy("u2") :
       redis = [k \in Keys |-> CASE k = getKey("u1") -> d1
                                  [] k = getKey("u2") -> d2
                                  [] OTHER -> Absent]
  /\ \E k1 \in {"u1", "u2"}, k2 \in {"u1", "u2"} :
       call = [c \in Calls |-> CASE c = 1 -> NewCall(1, "load", k1, <<>>)
                                 [] c = 2 -> NewCall(2, "load", k2, <<>>)
                                 [] OTHER -> NewCall(c, "none", "u1", <<>>)]
  /\ loaderCalls = 0
  /\ loaderLog = [i \in 1..LogLen |-> 0]
  /\ faults = 0
  /\ lockExpired = FALSE

SpecProv == InitProv /\ [][NextThrow]_vars

\* --------------------------------------------- specification SpecBlob
\* what another writer may have left under the data key: a blob that is not
\* JSON, and the JSON texts of 5, of 0 and of {"id": 1}
Blobs == {Garbage, JsonText(Num(5)), JsonText(Num(0)), JsonText(Obj(1))}

\* NLoad load calls for one key whose data key holds one of the blobs, with 1
\* to 2 * ttl seconds to live; the lock is free, the store and the loader
\* never fail, time passes
InitBlob ==
  \E b \in Blobs, e \in 1..(ttl * 2) : InitLoad(NLoad, [val |-> b, exp |-> e])

SpecBlob == InitBlob /\ [][NextWarm]_vars

\* ------------------------------------------- specification SpecSettle
\* what the data key may hold when the calls start: nothing, an entry an
\* earlier load wrote, due for a refresh, or the blob of another writer
Held == {Absent, Earlier(ttl), [val |-> JsonText(Num(5)), exp |-> ttl * 2]}

\* what the race lock key may hold: nothing, or the token of a holder that
\* crashed without releasing, with SettleLeft seconds to its expiry
SettleLeft == 2

\* NSettle load calls for one key
InitSettle ==
  /\ \E d \in Held, l \in {Absent, [val |-> Foreign, exp |-> SettleLeft]} :
       redis = [k \in Keys |-> IF k = getKey("u1") THEN d
                               ELSE IF k = raceKey("u1") THEN l ELSE Absent]
  /\ call = [c \in Calls |-> NewCall(c, IF c <= NSettle THEN "load" ELSE "none", "u1", <<>>)]
  /\ loaderCalls = 0
  /\ loaderLog = [i \in 1..LogLen |-> 0]
  /\ faults = 0
  /\ lockExpired = FALSE

\* the steps of a load whose loader returns or raises
SettleStep(c) ==
  \/ LoadStep(c)
  \/ LoaderThrow(c)

NextSettle ==
  \/ \E c \in Calls : SettleStep(c)
  \/ Tick

\* the store answers, the loader ends, every pending continuation runs, and
\* time passes
SpecSettle ==
  /\ InitSettle /\ [][NextSettle]_vars
  /\ \A c \in 1..NSettle : WF_vars(SettleStep(c))
  /\ WF_vars(Tick)

LoadCalls == {c \in Calls : call[c].kind = "load"}

DataKey == getKey("u1")

\* the value of the entry under the data key
StoredValue == EntryValue(JsonParse(RedisGet(DataKey)))

\* C1: N load calls that all start on a cold cache, before any loader
\* invocation, with a loader and a store that do not fail and no lock expiry,
\* all resolve to the value of one single loader invocation.
C1_ColdSingleFlight ==
  (/\ faults = 0 /\ ~lockExpired
   /\ \A c \in LoadCalls :
        /\ call[c].pc = "end" /\ call[c].err = NoErr
        /\ call[c].cold /\ call[c].startLoads = 0)
  => /\ loaderCalls = 1
     /\ \A c \in LoadCalls :
          call[c].outcome = "resolved" /\ call[c].result = LoaderValue(1)

\* C2: a load call whose TTL probe answers r with 0 < r <= T has been resolved
\* with the cached value before its race call, passes ignore = true, never
\* waits for a lock holder, and runs the refresh only after that resolution.
C2_StaleServedFirst ==
  \A c \in LoadCalls :
    call[c].ttlSeen \in 1..ttl =>
      /\ call[c].did /\ call[c].outcome = "resolved"
      /\ call[c].result = EntryValue(call[c].v)
      /\ call[c].dones = 1 /\ call[c].rejects = 0
      /\ call[c].ignore /\ ~call[c].delayed
      /\ call[c].pc \in {"setnx", "loader", "prime", "release", "end"}
      /\ "lockget" \notin call[c].ops

\* C2 witness: a stale hit whose refresh ran the loader after the resolution
C2_Witness ==
  \E c \in LoadCalls :
    /\ call[c].ttlSeen \in 1..ttl /\ "loader" \in call[c].ops
    /\ call[c].outcome = "resolved" /\ call[c].pc = "end"

\* C3: a load call that read a well-formed entry and whose TTL probe answers
\* more than T ends there: resolved with the cached value, no lock operation
\* and no loader invocation.
C3_FreshHit ==
  \A c \in LoadCalls :
    call[c].ttlSeen > ttl =>
      /\ call[c].pc = "end" /\ call[c].did
      /\ call[c].outcome = "resolved" /\ call[c].result = EntryValue(call[c].v)
      /\ call[c].ops = {"get", "ttl"}
      /\ ~call[c].acquired /\ "loader" \notin call[c].ops

\* C3 witness: a call that ended on a fresh hit
C3_Witness ==
  \E c \in LoadCalls :
    /\ call[c].ttlSeen > ttl /\ call[c].pc = "end"
    /\ call[c].outcome = "resolved" /\ WellFormed(call[c].v)

\* C4: load calls that all find the entry stale but valid, before any refresh,
\* all resolve to the cached value and the loader runs once for that refresh
\* cycle; the stored entry then holds the new result.
C4_SingleRefresh ==
  (/\ ~lockExpired
   /\ \A c \in LoadCalls :
        /\ call[c].pc = "end" /\ call[c].ttlSeen \in 1..ttl
        /\ call[c].startLoads = 0)
  => /\ loaderCalls = 1
     /\ \A c \in LoadCalls : call[c].outcome = "resolved" /\ call[c].result = Num(0)
     /\ redis[DataKey] # Absent => StoredValue = LoaderValue(1)

CeilDiv(a, b) == (a + b - 1) \div b

RECURSIVE SumLog(_)
\* loader invocations of the last w seconds
SumLog(w) == IF w = 0 THEN 0 ELSE loaderLog[w] + SumLog(w - 1)

\* C5: in every window of W seconds the loader of a key is invoked at most
\* ceil(W / T) + 1 times, whatever the number of callers.
C5_BoundedLoads == \A w \in 1..LogLen : SumLog(w) <= CeilDiv(w, ttl) + 1

RaceCalls == {c \in Calls : call[c].kind = "race"}

AllCalls == {c \in Calls : call[c].kind = "all"}

\* the SET NX of c was refused (it was issued, did not fail, did not acquire)
Refused(c) ==
  /\ "setnx" \in call[c].ops /\ ~call[c].acquired
  /\ call[c].outcome # "rejected"

\* C6: a release deletes the lock key only when the key holds the releasing
\* call's own token; run against a key that holds another call's token it
\* answers 0 and leaves the store as it is (race and all).
C6_SafeRelease ==
  [][\A c \in Calls :
       (call[c].pc = "release" /\ call'[c].pc # "release") =>
         LET k == LockKey(c) IN
         /\ redis'[k] # redis[k] =>
              /\ redis[k] # Absent /\ redis[k].val = call[c].token
              /\ redis'[k] = Absent /\ call'[c].relRes = 1
         /\ (redis[k] # Absent /\ redis[k].val # call[c].token /\ faults' = faults) =>
              /\ call'[c].relRes = 0
              /\ redis' = redis]_vars

\* C6 witness: the lock of c expired during its task, d acquired the key, and
\* the release of c answered 0 and left the token of d under the key
C6_Witness ==
  \E c \in Calls : \E d \in Calls \ {c} :
    /\ call[c].kind \in {"race", "all"} /\ call[d].kind = call[c].kind
    /\ call[c].relRes = 0 /\ call[c].pc = "end"
    /\ call[d].acquired
    /\ redis[LockKey(c)] # Absent /\ redis[LockKey(c)].val = call[d].token

\* C7 (a), (b): without lock expiry at most one race task runs at a time; a
\* race call with ignore = true whose SET NX was refused runs no task and
\* returns {executed: false, result: null}
RaceExclusion ==
  /\ ~lockExpired => Cardinality({c \in RaceCalls : call[c].pc = "task"}) <= 1
  /\ \A c \in RaceCalls :
       (Refused(c) /\ call[c].ignore) =>
         /\ call[c].pc = "end" /\ call[c].runs = 0
         /\ call[c].outcome = "resolved"
         /\ call[c].result = [executed |-> FALSE, result |-> Null]

\* the race calls that returned {executed: true, result} with their own result
Executed == {c \in RaceCalls : /\ call[c].outcome = "resolved"
                               /\ call[c].result = [executed |-> TRUE, result |-> TaskValue(c)]}

RaceQuiet ==
  /\ faults = 0 /\ ~lockExpired /\ RaceCalls # {}
  /\ \A c \in RaceCalls : call[c].pc = "end" /\ call[c].err = NoErr

\* C7 as claimed: (a), (b), and of race calls that overlap in time (each was
\* made before any of them ended) exactly one returns executed: true
C7_RaceSingleExecution ==
  /\ RaceExclusion
  /\ (RaceQuiet /\ \A c \in RaceCalls : call[c].prior = 0) => Cardinality(Executed) = 1

\* C7 as amended: (a), (b), and of race calls whose SET NX all reach the store
\* before any release of the lock exactly one acquires and runs its task; it
\* returns executed: true with its own result and the others executed: false
C7_RaceSingleExecutionAmended ==
  /\ RaceExclusion
  /\ (RaceQuiet /\ \A c \in RaceCalls : ~call[c].late) =>
       /\ Cardinality(Executed) = 1
       /\ \A c \in RaceCalls :
            IF c \in Executed THEN call[c].acquired /\ call[c].runs = 1
            ELSE /\ ~call[c].acquired /\ call[c].runs = 0
                 /\ call[c].outcome = "resolved"
                 /\ call[c].result = [executed |-> FALSE, result |-> Null]

\* C7 witness: two race calls on the lock, one executed and one refused
C7_Witness ==
  /\ RaceQuiet /\ \A c \in RaceCalls : ~call[c].late
  /\ \E c \in Executed : \E d \in RaceCalls \ {c} :
       Refused(d) /\ call[d].result = [executed |-> FALSE, result |-> Null]

\* C8, the safety half: without lock expiry at most one all task runs at a
\* time; no call runs its task twice; a call that ran its task ends with the
\* outcome of its own task
AllExclusion ==
  /\ ~lockExpired => Cardinality({c \in AllCalls : call[c].pc = "task"}) <= 1
  /\ \A c \in AllCalls :
       /\ call[c].runs <= 1
       /\ (call[c].pc = "end" /\ faults = 0) => call[c].runs = 1
       /\ (call[c].pc = "end" /\ call[c].runs = 1) =>
            IF call[c].err = NoErr
              THEN call[c].outcome = "resolved" /\ call[c].result = TaskValue(c)
              ELSE call[c].outcome = "rejected" /\ call[c].result = TaskErr(c)

\* C8: concurrent all calls on one lock name never have two tasks running at
\* once unless a lock expired, and while the store answers every such call
\* eventually has run its own task exactly once and returned its outcome
C8_AllMutex ==
  /\ []AllExclusion
  /\ \A c \in 1..NLock :
       <>(faults > 0 \/ call[c].kind # "all" \/ (call[c].pc = "end" /\ call[c].runs = 1))

\* C8 witness: two all calls, one had to wait, both ran and returned their own
C8_Witness ==
  /\ faults = 0 /\ ~lockExpired
  /\ \E c \in AllCalls : \E d \in AllCalls \ {c} :
       /\ call[c].pc = "end" /\ call[d].pc = "end"
       /\ call[d].delayed /\ ~call[c].delayed
       /\ call[c].result = TaskValue(c) /\ call[d].result = TaskValue(d)

C10_BackgroundFailures ==
  \A c \in LoadCalls :
    /\ call[c].did =>
         /\ call[c].outcome = "resolved" /\ call[c].dones = 1 /\ call[c].rejects = 0
         /\ WellFormed(call[c].v) => call[c].result = EntryValue(call[c].v)
    /\ call[c].outcome = "rejected" => ~call[c].did /\ call[c].dones = 0
    /\ call[c].bgErr # NoErr => call[c].did /\ call[c].outcome = "resolved"

\* C10 witness: a load resolved with the cached value and its refresh failed
C10_Witness ==
  \E c \in LoadCalls :
    /\ call[c].pc = "end" /\ call[c].did /\ WellFormed(call[c].v)
    /\ call[c].bgErr # NoErr
    /\ call[c].outcome = "resolved" /\ call[c].result = EntryValue(call[c].v)

\* done() and reject() are called at most once per load call in total, and the
\* did flag of the running frame goes from false to true only, at the step of
\* the first resolution
SettlesOnce ==
  /\ [](\A c \in LoadCalls : call[c].dones + call[c].rejects <= 1)
  /\ [][\A c \in LoadCalls :
          /\ call[c].did => call'[c].did
          /\ (~call[c].did /\ call'[c].did) =>
               call[c].outcome = "pending" /\ call'[c].outcome = "resolved"]_vars

PrimedBefore(p) ==
  /\ p + 1 \in Calls
  /\ call[p].kind = "prime" /\ call[p].outcome = "resolved" /\ call[p].result = Bool(TRUE)
  /\ call[p + 1].kind = "load" /\ call[p + 1].outcome # "pending"

Alone(c) ==
  \A d \in LoadCalls \ {c} : call[d].pc = "get" /\ call[d].depth = 0 /\ call[d].ops = {}

\* C13: a single load on an empty store whose loader succeeds resolves to the
\* loader's result, and at the step it resolves the data key holds an entry
\* with that value and an expiry of 2T seconds
C13_ColdSingleCaller ==
  /\ [](\A c \in LoadCalls :
          (Alone(c) /\ call[c].cold /\ call[c].pc = "end" /\ faults = 0 /\ call[c].err = NoErr) =>
            /\ call[c].outcome = "resolved" /\ call[c].result = LoaderValue(1)
            /\ call[c].runs = 1 /\ loaderCalls = 1)
  /\ [][\A c \in LoadCalls :
          (/\ Alone(c) /\ call[c].cold
           /\ call[c].outcome = "pending" /\ call'[c].outcome = "resolved") =>
            /\ call'[c].result = call'[c].newData
            /\ redis'[DataKey] = [val |-> JsonStringify(Now, call'[c].result), exp |-> ttl * 2]]_vars

\* C13 witness: the single caller has just been resolved from its own loader
\* run, the entry is in the store and the lock not yet released
C13_Witness ==
  \E c \in LoadCalls :
    /\ Alone(c) /\ call[c].cold /\ call[c].pc = "release"
    /\ call[c].outcome = "resolved" /\ call[c].result = LoaderValue(1)
    /\ redis[DataKey] = [val |-> JsonStringify(Now, LoaderValue(1)), exp |-> ttl * 2]

\* clear(k) of call p returned and the load of call p + 1 followed it
ClearedBefore(p) ==
  /\ p + 1 \in Calls
  /\ call[p].kind = "clear" /\ call[p].outcome = "resolved"
  /\ call[p + 1].kind = "load"

\* C14: clear(k) deletes the data key of k, answers 1 if there was an entry and
\* 0 if not, and leaves every other key alone; a load(k) that starts after the
\* clear and finds no entry written since takes the miss path, and when no
\* refresh task was about to prime at the clear it resolves to a value the
\* loader returned after the clear
C14_Clear ==
  /\ [][\A p \in Calls :
          (call[p].kind = "clear" /\ call[p].pc = "enter" /\ call'[p].outcome = "resolved") =>
            LET k == getKey(call[p].origKey) IN
            /\ call'[p].result = IF redis[k] # Absent THEN Num(1) ELSE Num(0)
            /\ redis'[k] = Absent
            /\ \A o \in Keys \ {k} : redis'[o] = redis[o]]_vars
  /\ [][\A p \in Calls :
          (/\ ClearedBefore(p)
           /\ call[p + 1].pc = "get" /\ call[p + 1].depth = 0 /\ call'[p + 1].pc # "get"
           /\ redis[LoadKey(p + 1)] = Absent) =>
            /\ call'[p + 1].cold /\ call'[p + 1].pc = "setnx"
            /\ call'[p + 1].outcome = "pending"]_vars
  /\ [](\A p \in Calls :
          (/\ ClearedBefore(p) /\ ~call[p].busy
           /\ call[p + 1].cold /\ call[p + 1].outcome = "resolved") =>
            \E n \in (call[p].startLoads + 1)..loaderCalls :
              call[p + 1].result = LoaderValue(n))

\* C14 witness: the clear removed an entry and answered 1 while another load had
\* a refresh under way, the other key kept its entry, and the load that
\* followed missed and resolved to a value loaded after the clear
C14_Witness ==
  \E p \in Calls :
    /\ ClearedBefore(p) /\ call[p].result = Num(1) /\ ~call[p].busy
    /\ call[p + 1].cold /\ call[p + 1].outcome = "resolved"
    /\ call[p + 1].result = LoaderValue(loaderCalls) /\ loaderCalls > call[p].startLoads
    /\ redis[getKey("u2")] = Earlier(ttl)
    /\ \E d \in LoadCalls \ {p + 1} : call[d].runs > 0

\* the load of call c waited for the race lock and its re-read found an entry
ReadAgain(c) == call[c].depth >= 1 /\ WellFormed(call[c].v)

\* a waiter leaves the wait loop only on a poll that found the lock key
\* absent, and a re-read that finds an entry resolves to the value stored in it,
\* which is the value a holder's loader returned
WaiterServed ==
  /\ [][\A c \in LoadCalls :
          (call[c].pc = "poll" /\ call'[c].pc = "get") =>
            redis[LockKey(c)] = Absent /\ call'[c].depth = call[c].depth + 1]_vars
  /\ [](\A c \in LoadCalls :
          ReadAgain(c) =>
            /\ call[c].outcome = "resolved" /\ call[c].result = EntryValue(call[c].v)
            /\ \E d \in LoadCalls \ {c} :
                 "set" \in call[d].ops /\ call[d].newData = call[c].result)

\* C15 as claimed: a waiter whose re-read finds the entry the holder primed
\* resolves to the stored value and never invokes the loader itself
C15_WaiterReread ==
  /\ WaiterServed
  /\ [](\A c \in LoadCalls :
          (ReadAgain(c) /\ call[c].pc = "end" /\ faults = 0) => call[c].runs = 0)

\* C15 as amended: a waiter whose re-read finds the entry the holder primed
\* resolves to the stored value; it does not invoke the loader itself when the
\* entry still has more than T seconds to live at the re-read
C15_WaiterRereadAmended ==
  /\ WaiterServed
  /\ [](\A c \in LoadCalls :
          (ReadAgain(c) /\ call[c].pc = "end" /\ call[c].ttlSeen > ttl) => call[c].runs = 0)

\* C15 witness: a waiter re-read the fresh entry of the holder and ended without
\* a loader run of its own
C15_Witness ==
  \E c \in LoadCalls :
    /\ ReadAgain(c) /\ call[c].pc = "end" /\ call[c].ttlSeen > ttl
    /\ call[c].runs = 0 /\ loaderCalls = 1
    /\ call[c].outcome = "resolved" /\ call[c].result = LoaderValue(1)

C17_AllReleaseOnFailure ==
  /\ [][\A c \in AllCalls :
          /\ (call[c].pc = "task" /\ call'[c].pc # "task") =>
               call'[c].pc = "release" /\ call'[c].outcome = "pending"
          /\ (call[c].pc = "release" /\ call'[c].pc # "release") =>
               /\ "eval" \in call'[c].ops /\ call'[c].pc = "end"
               /\ IF call[c].err # NoErr
                    THEN call'[c].outcome = "rejected" /\ call'[c].result = call[c].err
                    ELSE call'[c].outcome = "resolved"]_vars
  /\ [](\A c \in AllCalls :
          /\ (call[c].outcome # "pending" /\ "task" \in call[c].ops) => "eval" \in call[c].ops
          /\ (call[c].pc = "end" /\ call[c].relRes # -1) =>
               (redis[LockKey(c)] = Absent \/ redis[LockKey(c)].val # call[c].token))

\* C17 witness: the task of an all call raised, its release deleted the lock,
\* and the all call that was waiting acquired it, no lock having expired
C17_Witness ==
  /\ ~lockExpired
  /\ \E c \in AllCalls : \E d \in AllCalls \ {c} :
       /\ call[c].outcome = "rejected" /\ call[c].result = TaskErr(c) /\ call[c].relRes = 1
       /\ call[d].delayed /\ call[d].acquired

\* C18: the expiry of the lock key of an all call whose task is still running
\* changes nothing in that call; an all call that polls acquires the lock at
\* its first SET NX after the key is gone and goes on to its task, while the
\* first task may still be running; the first call ends with the outcome of its
\* own task although its release finds the lock lost
C18_ExpiryUnblocks ==
  /\ [][\A c \in AllCalls :
          /\ (/\ call[c].pc = "task" /\ redis[LockKey(c)] # Absent
              /\ redis[LockKey(c)].val = call[c].token /\ redis'[LockKey(c)] = Absent) =>
               call'[c] = call[c]
          /\ (/\ call[c].pc = "allnx" /\ call'[c] # call[c] /\ faults' = faults
              /\ redis[LockKey(c)] = Absent) =>
               /\ call'[c].pc = "task" /\ call'[c].acquired
               /\ redis'[LockKey(c)] = [val |-> call[c].token, exp |-> call[c].timeout]]_vars
  /\ [](\A c \in AllCalls :
          (call[c].pc = "end" /\ call[c].relRes = 0) =>
            /\ call[c].runs = 1
            /\ IF call[c].err = NoErr
                 THEN call[c].outcome = "resolved" /\ call[c].result = TaskValue(c)
                 ELSE call[c].outcome = "rejected" /\ call[c].result = TaskErr(c))

\* C18 witness: the lock of the first all call expired during its task; the
\* second call, which had been polling, acquired the lock, ran its task and
\* returned its own result while the first task was still running
C18_Witness ==
  /\ lockExpired /\ faults = 0
  /\ \E c \in AllCalls : \E d \in AllCalls \ {c} :
       /\ call[c].pc = "task" /\ call[c].acquired /\ ~call[c].delayed
       /\ call[d].delayed /\ call[d].pc = "end"
       /\ call[d].outcome = "resolved" /\ call[d].result = TaskValue(d)

\* the caller of race passed ignore = v, in the 3-argument form
\* race(name, task, ignore) or the 4-argument form race(name, timeout, task, ignore)
IgnoreArg(c) == IF call[c].args[1] = Fn THEN call[c].args[2] ELSE call[c].args[3]

\* C19: a race call with ignore = true or with ignore omitted, in either call
\* form, that finds the lock held returns {executed: false, result: null} at
\* its single SET NX: no poll, no task, no release, the lock key as it was
C19_RaceSkip ==
  /\ [][\A c \in RaceCalls :
          (/\ IgnoreArg(c) \in {Undefined, Bool(TRUE)}
           /\ call[c].pc = "setnx" /\ call'[c] # call[c] /\ faults' = faults
           /\ redis[LockKey(c)] # Absent) =>
            /\ call'[c].pc = "end" /\ call'[c].outcome = "resolved"
            /\ call'[c].result = [executed |-> FALSE, result |-> Null]
            /\ redis' = redis]_vars
  /\ [](\A c \in RaceCalls :
          (IgnoreArg(c) \in {Undefined, Bool(TRUE)} /\ Refused(c)) =>
            /\ call[c].ops = {"setnx"} /\ call[c].runs = 0
            /\ call[c].pc = "end" /\ call[c].relRes = -1)

\* C19 witness: a race call made without ignore was refused and returned, and
\* the lock of the holder is still there
C19_Witness ==
  \E c \in RaceCalls : \E d \in Calls \ {c} :
    /\ Refused(c) /\ call[c].pc = "end"
    /\ call[c].result = [executed |-> FALSE, result |-> Null]
    /\ IgnoreArg(c) = Undefined
    /\ redis[LockKey(c)] # Absent /\ redis[LockKey(c)].val = call[d].token

\* C20: a race call with ignore = false that finds the lock held starts to
\* poll; it returns {executed: false, result: null} at a poll that finds the
\* key absent and not before; it runs no task, writes nothing and releases
\* nothing, although the lock is free when it returns
C20_RaceWait ==
  /\ [][\A c \in RaceCalls :
          IgnoreArg(c) = Bool(FALSE) =>
            /\ (/\ call[c].pc = "setnx" /\ call'[c] # call[c] /\ faults' = faults
                /\ redis[LockKey(c)] # Absent) =>
                 call'[c].pc = "poll" /\ call'[c].outcome = "pending" /\ redis' = redis
            /\ (call[c].pc = "poll" /\ call'[c] # call[c] /\ faults' = faults) =>
                 /\ redis' = redis
                 /\ IF redis[LockKey(c)] = Absent
                      THEN /\ call'[c].pc = "end" /\ call'[c].outcome = "resolved"
                           /\ call'[c].result = [executed |-> FALSE, result |-> Null]
                      ELSE call'[c].pc = "poll" /\ call'[c].outcome = "pending"]_vars
  /\ [](\A c \in RaceCalls :
          (IgnoreArg(c) = Bool(FALSE) /\ Refused(c)) =>
            /\ call[c].runs = 0 /\ call[c].relRes = -1
            /\ call[c].ops \subseteq {"setnx", "lockget"}
            /\ call[c].pc = "end" => "lockget" \in call[c].ops)

\* C20 witness: a race call with ignore = false waited, returned executed:
\* false without a task run, and the lock is free
C20_Witness ==
  \E c \in RaceCalls :
    /\ IgnoreArg(c) = Bool(FALSE) /\ Refused(c) /\ call[c].pc = "end"
    /\ call[c].result = [executed |-> FALSE, result |-> Null]
    /\ call[c].ops = {"setnx", "lockget"} /\ call[c].runs = 0
    /\ redis[LockKey(c)] = Absent
\* ---------------------------------------------------------------------
\* C21  Original arguments reach the loader: whenever the user loader is
\* invoked on behalf of a load(args...) call, also after the call waited on the
\* race lock and read the cache again, it is invoked with the caller's args.
C21_OriginalArgs ==
  \A c \in LoadCalls : call[c].runs > 0 => call[c].given = call[c].origArgs

\* ---------------------------------------------------------------------
\* C22 as stated: a load whose read of the data key fails with a transport
\* error is not rejected with that error (the failure counts as a miss)
C22_GetFailureIsMiss ==
  \A c \in LoadCalls : call[c].outcome = "rejected" => call[c].result # StoreErr("get")

\* C22 amended: when the read of the data key fails with a transport error, the
\* load is rejected at that point with the store's error: the call ends, it
\* asks for no lock, invokes no loader and writes nothing; a call rejected with
\* the error of the read has ended
C22_GetFailureRejects ==
  /\ [](\A c \in LoadCalls :
          (call[c].outcome = "rejected" /\ call[c].result = StoreErr("get")) =>
            call[c].pc = "end")
  /\ [][\A c \in LoadCalls :
          (call[c].pc = "get" /\ faults' = faults + 1 /\ call'[c] # call[c]) =>
            /\ call'[c].outcome = "rejected" /\ call'[c].result = StoreErr("get")
            /\ call'[c].pc = "end"
            /\ call'[c].runs = call[c].runs /\ loaderCalls' = loaderCalls
            /\ "setnx" \notin call'[c].ops
            /\ redis' = redis]_vars

\* C22 witness: a load on a cold cache was rejected with the error of its read;
\* the loader never ran and the store is as it was
C22_Witness ==
  \E c \in LoadCalls :
    /\ call[c].pc = "end" /\ call[c].outcome = "rejected"
    /\ call[c].result = StoreErr("get")
    /\ call[c].ops = {"get"} /\ loaderCalls = 0
    /\ redis[DataKey] = Absent

\* ---------------------------------------------------------------------
\* the call was made with one scalar key
ScalarKey(c) ==
  Len(call[c].origArgs) = 1 /\ call[c].origArgs[1].t \in {"string", "number"}

\* C23  Scalar keys: a load(k) with one scalar key k, the number 0 and the empty
\* string included, invokes the loader with k; unless the loader raises it
\* resolves, with the loader's value when its first read missed and it ran the
\* loader, and the value is stored under {keyPrefix}:{name}:{k}; a load(k) whose
\* first read finds the fresh entry resolves to the stored value and invokes
\* no loader.
C23_ScalarKeys ==
  \A c \in LoadCalls : ScalarKey(c) =>
    /\ call[c].runs > 0 => call[c].given = <<call[c].origArgs[1]>>
    /\ call[c].pc = "end" =>
         \/ call[c].outcome = "resolved"
         \/ call[c].outcome = "rejected" /\ call[c].result = Annotate(LoaderErr)
    /\ (call[c].pc = "end" /\ call[c].depth = 0 /\ "set" \in call[c].ops) =>
         /\ call[c].result = call[c].newData
         /\ redis[getKey(Text(call[c].origArgs[1]))] # Absent
    /\ (call[c].pc = "end" /\ ~call[c].cold /\ call[c].depth = 0) =>
         /\ call[c].outcome = "resolved" /\ call[c].runs = 0
         /\ call[c].result = EntryValue(call[c].v)

\* ---------------------------------------------------------------------
\* the JSON form of the arguments of a call
ArgsJson(c) == Json(Arr(call[c].origArgs))

\* the derived key a call's arguments stand for: the scalar as a text, or the
\* MD5 of the JSON form of the only non-scalar argument or of the argument list
DerivedText(c) ==
  LET a == call[c].origArgs
  IN IF ScalarKey(c) THEN Text(a[1])
     ELSE IF Len(a) = 1 THEN md5(Json(a[1])) ELSE md5(Json(Arr(a)))

\* C24 as stated: the data key of a call is {keyPrefix}:{name}:{derivedKey}, and
\* two calls whose arguments have different JSON forms have different data keys
C24_DerivedKeys ==
  \A c \in LoadCalls :
    /\ LoadKey(c) = keyPrefix \o ":" \o name \o ":" \o DerivedText(c)
    /\ \A d \in LoadCalls : ArgsJson(c) # ArgsJson(d) => LoadKey(c) # LoadKey(d)

\* C24 amended: the data key of a call is {keyPrefix}:{name}:{derivedKey} all
\* through the call, also in the frame that reads again after a wait; a scalar
\* key appears as its text, a non-scalar key or an argument list as the MD5 of
\* its JSON form.  Two calls have the same data key iff their derived keys are
\* the same text, which calls with different arguments can have: the number 1
\* and the string "1", or the only argument [a, b] and the arguments (a, b).
\* A step of a call writes no data key but the call's own.
C24_DerivedKeysAmended ==
  /\ [](\A c \in LoadCalls :
          /\ LoadKey(c) = keyPrefix \o ":" \o name \o ":" \o DerivedText(c)
          /\ getKey(Text(getBaseKey(call[c].loadArgs))) = LoadKey(c)
          /\ \A d \in LoadCalls :
               /\ LoadKey(c) = LoadKey(d) <=> DerivedText(c) = DerivedText(d)
               /\ (call[c].origArgs = <<Num(1)>> /\ call[d].origArgs = <<Str("1")>>) =>
                    ArgsJson(c) # ArgsJson(d) /\ LoadKey(c) = LoadKey(d)
               /\ (Len(call[c].origArgs) > 1 /\ call[d].origArgs = <<Arr(call[c].origArgs)>>) =>
                    ArgsJson(c) # ArgsJson(d) /\ LoadKey(c) = LoadKey(d))
  /\ [][\A c \in LoadCalls : call'[c] # call[c] =>
          \A k \in DataKeys \ {LoadKey(c)} : redis'[k] = redis[k]]_vars

\* a load of the number 1 has been answered from the entry a load of the
\* string "1" wrote
SharedEntry ==
  \E c \in LoadCalls, d \in LoadCalls :
    /\ call[c].origArgs = <<Num(1)>> /\ call[d].origArgs = <<Str("1")>>
    /\ call[c].pc = "end" /\ call[d].pc = "end"
    /\ call[c].runs = 0 /\ call[d].runs = 1
    /\ call[c].outcome = "resolved" /\ call[c].result = call[d].newData

\* C24 witness: a load with an object key and a load with two arguments have
\* both stored their values, each under the MD5 of its JSON form
C24_Witness ==
  \E c \in LoadCalls, d \in LoadCalls :
    /\ call[c].origArgs = <<Obj(1)>> /\ call[d].origArgs = <<Str("u1"), Str("en")>>
    /\ call[c].pc = "end" /\ call[d].pc = "end"
    /\ redis[getKey(md5("{\"id\":1}"))] # Absent
    /\ redis[getKey(md5("[\"u1\",\"en\"]"))] # Absent
    /\ LoadKey(c) # LoadKey(d)

\* ---------------------------------------------------------------------
\* no other call of the kind of c has the lock name (the derived key) of c; a
\* name is what Lock.getKey writes into the lock key, so that the number 1 and
\* the string "1" are one name
OwnName(c) ==
  \A d \in Calls \ {c} : call[d].kind = call[c].kind => call[d].origKey # call[c].origKey

\* C25  Independence of lock names: a call of all whose lock name no other
\* call uses acquires at its first attempt, whether or not the lock of
\* another name is held; a load whose derived key no other load uses never
\* waits for and never skips because of a race lock.
C25_Independence ==
  \A c \in Calls : (call[c].kind \in {"all", "load"} /\ OwnName(c)) =>
    /\ ~call[c].delayed
    /\ ~Refused(c)
    /\ call[c].depth = 0

\* C25 witness: two calls of all with different names hold their locks at the
\* same time, both acquired at the first attempt
C25_Witness ==
  \E c \in AllCalls, d \in AllCalls :
    /\ call[c].origKey # call[d].origKey
    /\ call[c].pc = "task" /\ call[d].pc = "task"
    /\ redis[LockKey(c)] # Absent /\ redis[LockKey(d)] # Absent
    /\ ~call[c].delayed /\ ~call[d].delayed

\* ---------------------------------------------------------------------
\* the constructions: by new NWLoader(...) and through cacheable(...)(fn)
NewCalls == {c \in Calls : call[c].kind \in {"new", "cacheable"}}

\* the name is empty, null or has a character outside [A-Za-z0-9:_\-.\[\]]
BadName(x) ==
  \/ x = Null
  \/ x.t = "string" /\ x.chars = <<>>
  \/ x.t = "string" /\ \E i \in 1..Len(x.chars) :
       x.chars[i] \notin Lower \cup Upper \cup Digits \cup {":", "_", "-", ".", "[", "]"}

\* the options have the entry
Has(options, f) == options # Undefined /\ f \in DOMAIN options.o

C28_ReleaseAccounting ==
  /\ [](\A c \in RaceCalls \cup AllCalls :
          /\ "eval" \in call[c].ops => call[c].acquired /\ call[c].runs = 1
          /\ (call[c].pc = "end" /\ call[c].acquired) => "eval" \in call[c].ops
          /\ call[c].relRes # -1 => "eval" \in call[c].ops
          /\ call[c].pc = "release" => "eval" \notin call[c].ops)
  /\ [][\A c \in RaceCalls \cup AllCalls :
          ("eval" \notin call[c].ops /\ "eval" \in call'[c].ops) =>
            LET k == LockKey(c)
                held == redis[k] # Absent /\ redis[k].val = call[c].token
            IN /\ call[c].pc = "release" /\ call'[c].pc = "end"
               /\ faults' = faults =>
                    /\ call'[c].relRes = (IF held THEN 1 ELSE 0)
                    /\ held => redis'[k] = Absent
                    /\ ~held => redis' = redis
               /\ faults' # faults => call'[c].relRes = -1 /\ redis' = redis]_vars
  /\ [][\A c \in RaceCalls \cup AllCalls :
          "eval" \in call[c].ops => call'[c] = call[c]]_vars

\* C28 witness: two calls acquired the same lock key one after the other; the
\* release of the first, whose lock had expired, answered 0, the release of
\* the second answered 1
C28_Witness ==
  \E c \in RaceCalls \cup AllCalls, d \in RaceCalls \cup AllCalls :
    /\ LockKey(c) = LockKey(d)
    /\ call[c].pc = "end" /\ call[d].pc = "end"
    /\ call[c].acquired /\ call[d].acquired
    /\ call[c].relRes = 0 /\ call[d].relRes = 1

\* ---------------------------------------------------------------------
RefreshCalls == {c \in Calls : call[c].kind = "needsRefresh"}

Writers == {c \in Calls : call[c].kind \in {"prime", "load"}}

\* C30  Data TTL invariant: every write of a data entry, by prime called
\* directly or by the refresh task of a load, replaces whatever is under the
\* key by the new entry with an expiry of exactly 2T seconds and touches no
\* other key; every data key in the store has an expiry of at most 2T seconds;
\* prime returns true iff the store answered OK (a set that fails makes prime
\* reject and leaves the store as it is).
C30_DataTtl ==
  /\ [](\A k \in DataKeys :
          redis[k] # Absent => redis[k].exp # NoExpiry /\ redis[k].exp \in 1..(ttl * 2))
  /\ [](\A c \in Writers :
          (call[c].kind = "prime" /\ call[c].pc = "end") =>
            /\ "set" \in call[c].ops
            /\ call[c].outcome \in {"resolved", "rejected"}
            /\ call[c].outcome = "resolved" => call[c].result = Bool(TRUE)
            /\ call[c].outcome = "rejected" => call[c].result = StoreErr("set") /\ faults > 0)
  /\ [][\A c \in Writers :
          ("set" \notin call[c].ops /\ "set" \in call'[c].ops) =>
            LET k == getKey(call[c].origKey)
                value == IF call[c].kind = "prime" THEN call[c].args[1] ELSE call[c].newData
            IN IF faults' = faults
                 THEN /\ redis'[k] = [val |-> JsonStringify(Now, value), exp |-> ttl * 2]
                      /\ \A j \in Keys \ {k} : redis'[j] = redis[j]
                      /\ call[c].kind = "prime" =>
                           call'[c].outcome = "resolved" /\ call'[c].result = Bool(TRUE)
                 ELSE /\ redis' = redis
                      /\ call[c].kind = "prime" => call'[c].outcome = "rejected"]_vars

\* C30 witness: the data key held an entry with T seconds left; a load
\* refreshed it and a prime wrote it again: it now holds the primed value with
\* 2T seconds left
C30_Witness ==
  \E p \in Writers, c \in Writers :
    /\ call[p].kind = "prime" /\ call[p].pc = "end" /\ call[p].result = Bool(TRUE)
    /\ call[c].kind = "load" /\ call[c].pc = "end" /\ "set" \in call[c].ops
    /\ ~call[c].cold
    /\ redis[DataKey] = [val |-> JsonStringify(Now, call[p].args[1]), exp |-> ttl * 2]

Owners(k) ==
  {c \in RaceCalls \cup AllCalls : LockKey(c) = k /\ call[c].acquired}

\* C32  Single lock owner: the tokens of different calls differ; a lock key
\* is absent or holds the token of exactly one call whose SET NX answered OK;
\* a lock key receives a token only while it is absent, from the SET NX of a
\* call that acquires in that step, and a call acquires once: a token that
\* has left the key (released or expired) is never stored again.
C32_SingleOwner ==
  /\ [](/\ \A c \in RaceCalls \cup AllCalls : \A d \in (RaceCalls \cup AllCalls) \ {c} :
            call[c].token # Null => call[c].token # call[d].token
        /\ \A k \in LockKeys :
            redis[k] # Absent =>
              Cardinality({c \in Owners(k) : call[c].token = redis[k].val}) = 1)
  /\ [][\A k \in LockKeys :
          /\ (redis'[k] # Absent /\ (redis[k] = Absent \/ redis[k].val # redis'[k].val)) =>
               /\ redis[k] = Absent
               /\ \E c \in RaceCalls \cup AllCalls :
                    /\ LockKey(c) = k
                    /\ ~call[c].acquired /\ call'[c].acquired
                    /\ redis'[k].val = call'[c].token
          /\ \A c \in Owners(k) :
               /\ call'[c].acquired /\ call'[c].token = call[c].token
               /\ (redis[k] = Absent \/ redis[k].val # call[c].token) =>
                    (redis'[k] = Absent \/ redis'[k].val # call[c].token)]_vars

\* C32 witness: the lock of c expired while its task was running, d acquired
\* the key after it, and the key holds the token of d while c is still in its
\* task with its own, other token
C32_Witness ==
  \E c \in RaceCalls \cup AllCalls : \E d \in (RaceCalls \cup AllCalls) \ {c} :
    /\ LockKey(c) = LockKey(d)
    /\ call[c].acquired /\ call[c].pc = "task"
    /\ call[d].acquired /\ call[d].pc = "task"
    /\ redis[LockKey(c)] # Absent
    /\ redis[LockKey(c)].val = call[d].token
    /\ call[c].token # call[d].token

\* ---------------------------------------------------------------------
\* rawValue is there and does not yield an entry with createTime
Malformed(raw) == raw # Null /\ ~WellFormed(JsonParse(raw))

\* C33  Malformed entries are misses: a load frame whose read returned a blob
\* that fails to decode, or decodes to a value without createTime, does not
\* end before it has gone to the race lock, whatever the TTL of the key, and
\* the call resolves with nothing but the value its own loader run returned.
C33_MalformedIsMiss ==
  \A c \in LoadCalls :
    Malformed(call[c].raw) =>
      /\ call[c].outcome # "rejected"
      /\ call[c].outcome = "resolved" =>
           call[c].runs = 1 /\ call[c].result = call[c].newData
      /\ call[c].pc = "end" =>
           "setnx" \in call[c].ops /\ call[c].outcome = "resolved"

\* ---------------------------------------------------------------------
\* C34  Re-read guard: a load call starts a recursive load(baseKey) only out
\* of the wait on the race lock, when the lock key is gone (race returns
\* executed: false), the call being unanswered and its frame not having run
\* the loader; every such return starts exactly one re-read; a frame that has
\* answered from the cache or that acquired the lock never re-reads; the
\* outcome of the call is the outcome of its last frame.
C34_RereadGuard ==
  /\ [][\A c \in LoadCalls :
          /\ call'[c].depth # call[c].depth =>
               /\ call'[c].depth = call[c].depth + 1
               /\ call[c].pc = "poll" /\ call[c].delayed
               /\ RedisGet(LockKey(c)) = Null
               /\ ~call[c].did /\ ~call[c].acquired
               /\ call[c].outcome = "pending" /\ call'[c].outcome = "pending"
               /\ call'[c].pc = "get"
          /\ (call[c].pc = "poll" /\ RedisGet(LockKey(c)) = Null
              /\ call'[c] # call[c] /\ faults' = faults) =>
               call'[c].depth = call[c].depth + 1
          /\ (call[c].did \/ call[c].acquired) => call'[c].depth = call[c].depth]_vars
  /\ [](\A c \in LoadCalls :
          (call[c].depth > 0 /\ call[c].outcome = "resolved") =>
            \/ WellFormed(call[c].v) /\ call[c].result = EntryValue(call[c].v)
            \/ call[c].runs = 1 /\ call[c].result = call[c].newData)

\* C34 witness: a call that missed, waited for the lock another process held
\* until it expired, re-read once, and resolved with what its second frame
\* loaded
C34_Witness ==
  \E c \in LoadCalls :
    /\ call[c].depth = 1 /\ call[c].pc = "end"
    /\ call[c].outcome = "resolved" /\ call[c].runs = 1
    /\ call[c].result = call[c].newData

\* ---------------------------------------------------------------------
\* C35  Loader error annotation: every load call that is rejected after its
\* loader raised is rejected with an error whose message carries the
\* annotation, whatever the loader threw.
C35_Annotated ==
  \A c \in LoadCalls :
    (call[c].outcome = "rejected" /\ call[c].thrown # NoErr) =>
      call[c].result.annotated

\* C35 as the code has it: a load call whose loader raised on the miss path is
\* rejected; with the thrown Error itself, its message as it was, when the
\* Error has a code; with the thrown Error, its message annotated, when it has
\* none; with a new annotated Error made of the thrown value when that is not
\* an object.
C35_AnnotatedUnlessCode ==
  \A c \in LoadCalls :
    /\ (call[c].pc = "end" /\ call[c].thrown # NoErr /\ ~call[c].did) =>
         call[c].outcome = "rejected"
    /\ (call[c].outcome = "rejected" /\ call[c].thrown # NoErr) =>
         LET e == call[c].thrown IN
         /\ call[c].result.annotated = ~HasCode(e)
         /\ HasCode(e) => call[c].result = e
         /\ (~HasCode(e) /\ e.t = "error") => call[c].result = [e EXCEPT !.annotated = TRUE]
         /\ e.t # "error" =>
              /\ call[c].result.t = "error"
              /\ call[c].result.message = e

\* C35 witness: two calls on a cold cache were rejected one after the other,
\* one with the coded Error its loader threw, unannotated, the other with
\* the annotated Error made of the string its loader threw
C35_Witness ==
  \E c \in LoadCalls, d \in LoadCalls :
    /\ call[c].outcome = "rejected" /\ call[c].thrown = LoaderErrCode
    /\ call[c].result = LoaderErrCode
    /\ call[d].outcome = "rejected" /\ call[d].thrown = LoaderText
    /\ call[d].result.annotated

\* ---------------------------------------------------------------------
\* C36  Every load call eventually settles: with a loader that returns or
\* raises, a store that answers, lock keys that expire and every call taking
\* the steps it can take, each load call is resolved or rejected in the end.
C36_Settles == \A c \in 1..NSettle : <>(call[c].outcome # "pending")

\* ---------------------------------------------------------------------
\* C37  Loader only under an acquired lock: a step that invokes the user
\* loader or writes a data key is the step of a load call whose own SET NX on
\* the race lock key of its derived key answered OK earlier in the same
\* frame; a frame whose SET NX was refused, skipped or waiting, invokes no
\* loader and writes nothing.
C37_LoaderUnderLock ==
  /\ [][\A k \in DataKeys :
          (loaderCalls' # loaderCalls \/ (redis'[k] # redis[k] /\ call' # call)) =>
            \E c \in LoadCalls :
              /\ call'[c] # call[c]
              /\ loaderCalls' = loaderCalls \/ call[c].pc = "loader"
              /\ redis'[k] = redis[k] \/ (call[c].pc = "prime" /\ LoadKey(c) = k)
              /\ call[c].acquired /\ ~call[c].delayed
              /\ "setnx" \in call[c].ops
              /\ call[c].token = Token(c, call[c].depth)]_vars
  /\ [](\A c \in LoadCalls :
          /\ call[c].pc \in {"loader", "prime"} => call[c].acquired
          /\ ("setnx" \in call[c].ops /\ ~call[c].acquired) =>
               /\ "loader" \notin call[c].ops /\ "set" \notin call[c].ops
               /\ call[c].pc \notin {"loader", "prime", "release"})

\* C37 witness: on a cold cache c acquired the lock, loaded and wrote the
\* entry; d, refused, waited, re-read and was served the entry without ever
\* invoking the loader
C37_Witness ==
  \E c \in LoadCalls : \E d \in LoadCalls \ {c} :
    /\ call[c].acquired /\ call[c].runs = 1 /\ "set" \in call[c].ops
    /\ call[c].outcome = "resolved"
    /\ call[d].depth = 1 /\ call[d].runs = 0 /\ call[d].pc = "end"
    /\ call[d].outcome = "resolved" /\ call[d].result = call[c].result

\* ---------------------------------------------------------------------
\* (loader name, derived key) pairs: two loaders and two keys, and a loader
\* name and a key with a colon
Pairs == {<<name, "u1">>, <<otherName, "u1">>, <<name, "u2">>, <<otherName, "u2">>}

ColonPairs == {<<name, "x:u1">>, <<name \o ":x", "u1">>}

\* the data keys of different pairs differ
DataKeysApart(pairs) ==
  \A p \in pairs, q \in pairs : p # q => getKeyOf(p[1], p[2]) # getKeyOf(q[1], q[2])

\* C38  Loader isolation: a load call whose loader no other call is made on
\* never waits for a race lock, never has its refresh skipped and never
\* re-reads; and different (loader name, derived key) pairs have different
\* data keys.
C38_LoaderIsolation ==
  /\ \A c \in LoadCalls :
       (\A d \in LoadCalls \ {c} : call[d].loader # call[c].loader) =>
         /\ ~call[c].delayed
         /\ ~Refused(c)
         /\ call[c].depth = 0
  /\ DataKeysApart(Pairs)

\* the data keys stay apart when names and keys may hold a colon
ColonKeysApart == DataKeysApart(Pairs \cup ColonPairs)

\* ---------------------------------------------------------------------
\* the release of c failed: its eval was issued and brought no answer
ReleaseFailed(c) ==
  call[c].pc = "end" /\ call[c].acquired /\ "eval" \in call[c].ops /\ call[c].relRes = -1

OwnKey(c) == getKeyOf(call[c].loader, call[c].origKey)

\* C40  Value provenance: the step that resolves a load call is the read of
\* a well-formed entry held under the call's own data key at that moment, the
\* call resolving with the value field of that entry, or the prime that
\* follows the call's own loader invocation, the call resolving with what
\* that invocation returned; a call resolves with nothing else, and never
\* once its loader has raised.
C40_Provenance ==
  /\ [][\A c \in LoadCalls :
          (call[c].outcome = "pending" /\ call'[c].outcome = "resolved") =>
            /\ call[c].thrown = NoErr /\ call'[c].thrown = NoErr
            /\ \/ /\ call[c].pc = "get"
                  /\ redis[OwnKey(c)] # Absent
                  /\ WellFormed(JsonParse(redis[OwnKey(c)].val))
                  /\ call'[c].result = EntryValue(JsonParse(redis[OwnKey(c)].val))
               \/ /\ call[c].pc = "prime"
                  /\ "loader" \in call[c].ops /\ call[c].runs = 1
                  /\ call'[c].result = call[c].newData
                  /\ redis'[OwnKey(c)] = [val |-> JsonStringify(Now, call[c].newData),
                                          exp |-> ttl * 2]]_vars
  /\ [][\A c \in LoadCalls :
          /\ call[c].outcome = "resolved" => call'[c].result = call[c].result
          /\ (call[c].pc = "loader" /\ call'[c].pc = "prime") =>
               /\ call'[c].newData = LoaderValue(loaderCalls')
               /\ loaderCalls' = loaderCalls + 1]_vars
  /\ [](\A c \in LoadCalls : \A d \in LoadCalls \ {c} :
          (/\ call[c].outcome = "resolved" /\ call[d].outcome = "resolved"
           /\ OwnKey(c) # OwnKey(d)) => call[c].result # call[d].result)

\* C40 witness: c, made for "u1", took the stale entry of "u1" and then ran
\* a loader that raised; d, made for "u2", missed and resolved with what its
\* own loader invocation returned
C40_Witness ==
  \E c \in LoadCalls : \E d \in LoadCalls \ {c} :
    /\ call[c].origKey = "u1" /\ call[d].origKey = "u2"
    /\ call[c].outcome = "resolved" /\ call[c].result = Num(-1)
    /\ call[c].thrown # NoErr /\ call[c].pc = "end"
    /\ call[d].outcome = "resolved" /\ call[d].runs = 1
    /\ call[d].result = call[d].newData /\ call[d].cold

====
